---- MODULE Spec2Model ----
(***************************************************************************)
(* The ledger of database/account_repository.py: accounts, holds, the      *)
(* balance_updates rows and the double-entry journal, with the MongoDB     *)
(* multi-document transaction that execute_transfer_with_acid runs its     *)
(* callback in.                                                            *)
(*                                                                         *)
(* Money is counted in whole minor units (integers).  Decimal128 <->       *)
(* Decimal conversions (utils/decimal_utils.py) keep the value for every   *)
(* amount of at most 34 digits, and float(Decimal) keeps it for every      *)
(* amount of at most 15 significant digits; all amounts of the model are   *)
(* inside both ranges, so the stored numbers are the integers themselves.  *)
(***************************************************************************)
EXTENDS Integers, FiniteSets, Sequences, TLC

\* ------------------------------------------------------------------ bounds
MaxCalls == 2         \* transfers begun plus holds created in one behaviour
MaxTime == 1          \* clock ticks
MaxAttempts == 2      \* callback runs with_transaction fits in its time limit

Procs == {1, 2}
SeqProcs == {1}
AccountNumbers == {"A", "B", "C"}
Provisioned == {"A", "B"}
TransactionIds == 1..MaxCalls
Amounts == {-1, 0, 1}
ConcAmounts == {1}
RaceAmounts == {1, 2}
InitialBalances == {0, 1}
OverdraftLimits == {0, 1}
HoldIds == 1..MaxCalls
HistoryLimit == 10    \* get_transaction_history_sync's default limit
MaxDepth == 3         \* the largest max_depth graph_network_analysis is called with
DefaultDepth == 3     \* graph_network_analysis: max_depth: int = 3
DefaultWindow == 30   \* graph_network_analysis: time_window_days: int = 30
HoursPerDay == 24
LayeringAmount == 1000
LayeringCount == 5
LargeNetwork == 10
HighValueNetwork == 100000
NoEmbedding == -1
DefaultLimit == 10    \* hybrid_search_similar_transactions: limit: int = 10
MaxLimit == 3         \* the largest limit the searches are called with

VARIABLES
    accounts,          \* accounts collection: account_number -> document
    holds,             \* holds collection: set of BalanceHold documents
    balance_updates,   \* balance_updates collection: set of BalanceUpdate rows
    journal,           \* journal collection: set of TransactionJournal rows
    tx,                \* per caller: the open multi-document transaction
    pc,                \* per caller: position in the running call
    call,              \* per caller: arguments, locals and outcome of the call
    pre,               \* per caller: the collections as they were when the call began
    opening,           \* account_number -> balance the account was created with
    placed,            \* hold_id -> the account as place_hold_sync found it
    transactions,      \* transactions collection: set of transaction records
    decisions,         \* decisions collection: set of TransactionDecision documents
    now,               \* the clock datetime.now() reads
    next_session,      \* sessions handed out so far (uuid4 never repeats)
    next_hold          \* hold ids handed out so far (uuid4 never repeats)

vars == <<accounts, holds, balance_updates, journal, tx, pc, call, pre, opening,
          placed, transactions, decisions, now, next_session, next_hold>>

store == <<accounts, holds, balance_updates, journal>>

\* ------------------------------------------------------------- documents
\* Account(...) of database/account_schemas.py, as get_or_create_account_sync
\* and scripts/setup_mongodb.py fill it.
Account(balance, overdraft) ==
    [holds |-> {}, balance |-> balance,
     available_balance |-> balance,
     overdraft_limit |-> overdraft, total_deposits |-> 0, total_withdrawals |-> 0,
     transaction_count |-> 0,
     updated_at |-> now]

NullAccount ==
    [holds |-> {}, balance |-> 0, available_balance |-> 0,
     overdraft_limit |-> 0, total_deposits |-> 0, total_withdrawals |-> 0,
     transaction_count |-> 0,
     updated_at |-> 0]

BalanceHold(hold_id, account_number, transaction_id, amount, expires_at) ==
    [hold_id |-> hold_id, account_number |-> account_number,
     transaction_id |-> transaction_id, amount |-> amount,
     expires_at |-> expires_at, released |-> FALSE]

NullHold == BalanceHold(0, "", 0, 0, 0)

BalanceUpdate(account_number, transaction_id, operation, amount, previous_balance, new_balance, session_id) ==
    [account_number |-> account_number, transaction_id |-> transaction_id,
     amount |-> amount, operation |-> operation,
     previous_balance |-> previous_balance, new_balance |-> new_balance,
     session_id |-> session_id]

TransactionJournal(transaction_id, debit_account, debit_amount, credit_account, credit_amount, status, session_id, committed) ==
    [transaction_id |-> transaction_id, session_id |-> session_id,
     debit_account |-> debit_account, debit_amount |-> debit_amount,
     credit_account |-> credit_account, credit_amount |-> credit_amount,
     status |-> status, committed |-> committed]

\* A document of the transactions collection, with the fields the queries of
\* database/repositories.py read.  embedding stands for the stored vector by the
\* score (in hundredths) $vectorSearch gives it against the query vector of the
\* search; NoEmbedding for a document without the field.
TransactionRecord(transaction_id, sender_account, recipient_account, amount, transaction_type, timestamp, sender_country, recipient_country, embedding) ==
    [transaction_id |-> transaction_id,
     amount |-> amount,
     transaction_type |-> transaction_type,
     timestamp |-> timestamp, embedding |-> embedding,
     sender |-> [account_number |-> sender_account, country |-> sender_country],
     recipient |-> [account_number |-> recipient_account, country |-> recipient_country]]

\* The transactions on record: what the decision process has stored.
TransactionRecords ==
    {TransactionRecord(1, "A", "B", 1, "wire_transfer", 0, "US", "US", 90),
     TransactionRecord(2, "B", "A", 1, "wire_transfer", 1, "US", "US", 50)}

\* A document of the decisions collection (TransactionDecision), with the
\* fields the precedent search projects.
TransactionDecision(decision_id, transaction_id, decision, confidence_score, risk_score) ==
    [transaction_id |-> transaction_id, decision_id |-> decision_id,
     decision |-> decision, confidence_score |-> confidence_score,
     risk_score |-> risk_score]

\* utils/decimal_utils.py
add_money(a, b) == a + b
subtract_money(minuend, subtrahend) == minuend - subtrahend

\* ----------------------------------------------------------- transactions
NoAccounts == [a \in {} |-> NullAccount]

\* A session with no transaction in progress.
NoTransaction ==
    [active |-> FALSE, snap |-> NoAccounts, stale |-> {}, acc |-> NoAccounts,
     bu |-> {}, jr |-> {}]

\* start_transaction: the snapshot every read of the callback is served from.
StartTransaction(accs) ==
    [active |-> TRUE, snap |-> accs, stale |-> {}, acc |-> NoAccounts,
     bu |-> {}, jr |-> {}]

\* transaction_details of hybrid_search_similar_transactions: the fields of the
\* candidate transaction the search reads.
TransactionDetails(transaction_type, amount, sender_country, recipient_country) ==
    [amount |-> amount, transaction_type |-> transaction_type,
     sender |-> [country |-> sender_country],
     recipient |-> [country |-> recipient_country]]

NoDetails == TransactionDetails("", 0, "", "")

\* The answer of graph_network_analysis when no network was found.
NoSummary ==
    [total_networks_found |-> 0, max_network_size |-> 0,
     total_amount_in_networks |-> 0, suspicious_networks_count |-> 0,
     unique_accounts_in_networks |-> 0,
     risk_indicators |-> [has_suspicious_patterns |-> FALSE,
                          large_network_detected |-> FALSE,
                          high_value_network |-> FALSE]]

NoCall ==
    [hold_id |-> 0, account_number |-> "", transaction_id |-> 0, amount |-> 0,
     session_id |-> 0, sender_account |-> "", recipient_account |-> "",
     embedding |-> FALSE, sender |-> NullAccount,
     recipient |-> NullAccount, op |-> "none", attempt |-> 0,
     hold |-> NullHold,
     account |-> NullAccount, max_depth |-> 0, time_window_days |-> 0,
     summary |-> NoSummary, transaction_details |-> NoDetails, limit |-> 0,
     path |-> "", precedents |-> <<>>,
     rows |-> {}, result |-> ""]

NoPre == [accounts |-> NoAccounts, holds |-> {}, balance_updates |-> {}, journal |-> {}]

Pre == [accounts |-> accounts, holds |-> holds, balance_updates |-> balance_updates,
        journal |-> journal]

\* The collections a write goes to, and the transactions it can go into.
World == [tx |-> tx, acc |-> accounts, bu |-> balance_updates, jr |-> journal]

\* MarkStale for a store that does not compare a transaction's writes with the
\* writes committed since its snapshot.
MarkStale_Unnoticed(txs, p, as) == txs

\* A committed write to the accounts in `as` is newer than the snapshot of every
\* transaction open at that moment.
MarkStale(txs, p, as) ==
    [q \in Procs |->
        IF q # p /\ txs[q].active THEN [txs[q] EXCEPT !.stale = @ \cup as] ELSE txs[q]]

\* The document a find_one or update_one of caller p sees.
Visible(W, p, a, session) ==
    IF session
    THEN IF a \in DOMAIN W.tx[p].acc THEN W.tx[p].acc[a] ELSE W.tx[p].snap[a]
    ELSE W.acc[a]

\* update_one on the accounts collection; with session=session the write stays
\* in the transaction until it commits.
WriteAccount(W, p, a, doc, session) ==
    IF session
    THEN [W EXCEPT !.tx[p].acc = (a :> doc) @@ @]
    ELSE [W EXCEPT !.acc[a] = doc, !.tx = MarkStale(@, p, {a})]

InsertBalanceUpdate(W, p, row, session) ==
    IF session THEN [W EXCEPT !.tx[p].bu = @ \cup {row}]
               ELSE [W EXCEPT !.bu = @ \cup {row}]

InsertJournal(W, p, row, session) ==
    IF session THEN [W EXCEPT !.tx[p].jr = @ \cup {row}]
               ELSE [W EXCEPT !.jr = @ \cup {row}]

\* Another transaction holds an uncommitted write to account a.
PendingWrite(p, a) ==
    \E q \in Procs \ {p} : tx[q].active /\ a \in DOMAIN tx[q].acc

\* WriteConflict for a store that refuses a write only while another
\* transaction's write to the document is uncommitted.
WriteConflict_PendingOnly(p, a) == PendingWrite(p, a)

\* The store answers a write of transaction p to account a with WriteConflict.
WriteConflict(p, a) == a \in tx[p].stale \/ PendingWrite(p, a)

\* commit_transaction: every buffered write becomes visible in one step.
Commit(W, p) ==
    [tx  |-> [MarkStale(W.tx, p, DOMAIN W.tx[p].acc) EXCEPT ![p] = NoTransaction],
     acc |-> [a \in DOMAIN W.acc |->
                 IF a \in DOMAIN W.tx[p].acc THEN W.tx[p].acc[a] ELSE W.acc[a]],
     bu  |-> W.bu \cup W.tx[p].bu,
     jr  |-> W.jr \cup W.tx[p].jr]

\* abort_transaction: the buffered writes are dropped.
Abort(W, p) == [W EXCEPT !.tx[p] = NoTransaction]

SetWorld(W) ==
    /\ accounts' = W.acc
    /\ balance_updates' = W.bu
    /\ journal' = W.jr
    /\ tx' = W.tx

\* The calls that count against MaxCalls: transfers begun, holds created and
\* accounts created.
CallsBegun == next_session + next_hold + Cardinality(DOMAIN accounts \ Provisioned)

Finish(p, result) ==
    /\ pc' = [pc EXCEPT ![p] = "done"]
    /\ call' = [call EXCEPT ![p].result = result]

\* ------------------------------------------------------------------- Init
Init ==
    /\ \E od \in OverdraftLimits :
          accounts = ("A" :> [holds |-> {}, balance |-> 1,
                              available_balance |-> 1,
                              overdraft_limit |-> 0, total_deposits |-> 0,
                              total_withdrawals |-> 0, transaction_count |-> 0,
                              updated_at |-> 0])
                  @@ ("B" :> [holds |-> {}, balance |-> 0,
                              available_balance |-> 0,
                              overdraft_limit |-> od, total_deposits |-> 0,
                              total_withdrawals |-> 0, transaction_count |-> 0,
                              updated_at |-> 0])
    /\ holds = {}
    /\ balance_updates = {}
    /\ journal = {}
    /\ tx = [p \in Procs |-> NoTransaction]
    /\ pc = [p \in Procs |-> "idle"]
    /\ call = [p \in Procs |-> NoCall]
    /\ pre = [p \in Procs |-> NoPre]
    /\ opening = ("A" :> 1) @@ ("B" :> 0)
    /\ placed = NoAccounts
    /\ transactions = TransactionRecords
    /\ decisions = {}
    /\ now = 1
    /\ next_session = 0
    /\ next_hold = 0

\* ----------------------------------------- execute_transfer_with_acid
\* Steps 1-3 of the callback, in the order the code takes them.
CallbackChecks(snap, c) ==
    IF c.sender_account \notin DOMAIN snap THEN "AccountNotFound"
    ELSE IF snap[c.sender_account].available_balance < c.amount THEN "InsufficientFunds"
    ELSE IF c.recipient_account \notin DOMAIN snap THEN "AccountNotFound"
    ELSE "pass"

\* RunCallback with the debit issued before the funds check and outside the
\* session: the raise no longer undoes it.
RunCallback_DebitsFirst(p, c) ==
    LET W == [World EXCEPT !.tx[p] = StartTransaction(accounts)]
        outcome == CallbackChecks(W.tx[p].snap, c)
        sender == W.acc[c.sender_account]
    IN IF outcome = "pass"
       THEN /\ SetWorld(W)
            /\ call' = [call EXCEPT ![p] =
                          [c EXCEPT !.sender = W.tx[p].snap[c.sender_account],
                                    !.recipient = W.tx[p].snap[c.recipient_account]]]
            /\ pc' = [pc EXCEPT ![p] = "debit"]
       ELSE /\ SetWorld(IF outcome = "InsufficientFunds"
                        THEN WriteAccount(Abort(W, p), p, c.sender_account,
                                [sender EXCEPT
                                    !.balance = subtract_money(@, c.amount),
                                    !.available_balance = subtract_money(@, c.amount),
                                    !.updated_at = now],
                                FALSE)
                        ELSE Abort(W, p))
            /\ call' = [call EXCEPT ![p] = [c EXCEPT !.result = outcome]]
            /\ pc' = [pc EXCEPT ![p] = "done"]

\* with_transaction starts a transaction and runs the callback for the call c:
\* both find_one calls read the transaction's snapshot; a raise aborts the
\* transaction and reaches the caller.
RunCallback(p, c) ==
    LET W == [World EXCEPT !.tx[p] = StartTransaction(accounts)]
        outcome == CallbackChecks(W.tx[p].snap, c)
    IN IF outcome = "pass"
       THEN /\ SetWorld(W)
            /\ call' = [call EXCEPT ![p] =
                          [c EXCEPT !.sender = W.tx[p].snap[c.sender_account],
                                    !.recipient = W.tx[p].snap[c.recipient_account]]]
            /\ pc' = [pc EXCEPT ![p] = "debit"]
       ELSE /\ SetWorld(Abort(W, p))
            /\ call' = [call EXCEPT ![p] = [c EXCEPT !.result = outcome]]
            /\ pc' = [pc EXCEPT ![p] = "done"]

\* Lines 91-109 and the first run of the callback.
execute_transfer_with_acid(p, sender_account, recipient_account, amount, transaction_id) ==
    /\ pc[p] = "idle"
    /\ CallsBegun < MaxCalls
    /\ next_session' = next_session + 1
    /\ pre' = [pre EXCEPT ![p] = Pre]
    /\ RunCallback(p, [NoCall EXCEPT !.op = "transfer",
                                     !.sender_account = sender_account,
                                     !.recipient_account = recipient_account,
                                     !.amount = amount,
                                     !.transaction_id = transaction_id,
                                     !.session_id = next_session + 1,
                                     !.attempt = 1])
    /\ UNCHANGED <<holds, opening, placed, transactions, decisions, now, next_hold>>

\* A further run of the callback, after a write conflict.
callback_retry(p) ==
    /\ pc[p] = "callback"
    /\ RunCallback(p, call[p])
    /\ UNCHANGED <<holds, pre, opening, placed, transactions, decisions, now, next_session, next_hold>>

new_sender_balance(c) == subtract_money(c.sender.balance, c.amount)
new_sender_available(c) == subtract_money(c.sender.available_balance, c.amount)
new_recipient_balance(c) == add_money(c.recipient.balance, c.amount)
new_recipient_available(c) == add_money(c.recipient.available_balance, c.amount)

\* Step 4: $set of the balances computed from the document read in step 1, $inc
\* of the counters of the document as the transaction sees it now.
UpdateSender(W, p) ==
    LET c == call[p]
        doc == Visible(W, p, c.sender_account, TRUE)
    IN WriteAccount(W, p, c.sender_account,
           [doc EXCEPT !.balance = new_sender_balance(c),
                       !.available_balance = new_sender_available(c),
                       !.updated_at = now,
                       !.transaction_count = @ + 1,
                       !.total_withdrawals = @ + c.amount],
           TRUE)

\* InsertSenderUpdate without session=session.
InsertSenderUpdate_NoSession(W, p) ==
    LET c == call[p]
    IN InsertBalanceUpdate(W, p,
           BalanceUpdate(c.sender_account, c.transaction_id, "debit", c.amount,
                         c.sender.balance, new_sender_balance(c), c.session_id),
           FALSE)

InsertSenderUpdate(W, p) ==
    LET c == call[p]
    IN InsertBalanceUpdate(W, p,
           BalanceUpdate(c.sender_account, c.transaction_id, "debit", c.amount,
                         c.sender.balance, new_sender_balance(c), c.session_id),
           TRUE)

\* Step 5.
UpdateRecipient(W, p) ==
    LET c == call[p]
        doc == Visible(W, p, c.recipient_account, TRUE)
    IN WriteAccount(W, p, c.recipient_account,
           [doc EXCEPT !.balance = new_recipient_balance(c),
                       !.available_balance = new_recipient_available(c),
                       !.updated_at = now,
                       !.transaction_count = @ + 1,
                       !.total_deposits = @ + c.amount],
           TRUE)

InsertRecipientUpdate(W, p) ==
    LET c == call[p]
    IN InsertBalanceUpdate(W, p,
           BalanceUpdate(c.recipient_account, c.transaction_id, "credit", c.amount,
                         c.recipient.balance, new_recipient_balance(c), c.session_id),
           TRUE)

\* InsertJournalEntry with status and committed left at the schema's defaults.
InsertJournalEntry_Defaults(W, p) ==
    LET c == call[p]
    IN InsertJournal(W, p,
           TransactionJournal(c.transaction_id, c.sender_account, c.amount,
                              c.recipient_account, c.amount, "pending",
                              c.session_id, FALSE),
           TRUE)

\* Step 6.
InsertJournalEntry(W, p) ==
    LET c == call[p]
    IN InsertJournal(W, p,
           TransactionJournal(c.transaction_id, c.sender_account, c.amount,
                              c.recipient_account, c.amount, "completed",
                              c.session_id, TRUE),
           TRUE)

callback_debit(p) ==
    /\ pc[p] = "debit"
    /\ ~WriteConflict(p, call[p].sender_account)
    /\ SetWorld(InsertSenderUpdate(UpdateSender(World, p), p))
    /\ pc' = [pc EXCEPT ![p] = "credit"]
    /\ UNCHANGED <<holds, call, pre, opening, placed, transactions, decisions, now, next_session, next_hold>>

callback_credit(p) ==
    /\ pc[p] = "credit"
    /\ ~WriteConflict(p, call[p].recipient_account)
    /\ SetWorld(InsertJournalEntry(InsertRecipientUpdate(UpdateRecipient(World, p), p), p))
    /\ pc' = [pc EXCEPT ![p] = "commit"]
    /\ UNCHANGED <<holds, call, pre, opening, placed, transactions, decisions, now, next_session, next_hold>>

\* The account the next update_one of the callback writes.
NextWrite(p) ==
    IF pc[p] = "debit" THEN call[p].sender_account ELSE call[p].recipient_account

\* write_conflict with the error raised at the first conflict.
write_conflict_NoRetry(p) ==
    /\ pc[p] \in {"debit", "credit"}
    /\ WriteConflict(p, NextWrite(p))
    /\ SetWorld(Abort(World, p))
    /\ Finish(p, "WriteConflict")
    /\ UNCHANGED <<holds, pre, opening, placed, transactions, decisions, now, next_session, next_hold>>

\* An update_one answered with WriteConflict (TransientTransactionError):
\* with_transaction aborts and runs the callback again while its time limit
\* lasts, and raises the error once it is over.
write_conflict(p) ==
    /\ pc[p] \in {"debit", "credit"}
    /\ WriteConflict(p, NextWrite(p))
    /\ SetWorld(Abort(World, p))
    /\ IF call[p].attempt < MaxAttempts
       THEN /\ call' = [call EXCEPT ![p].attempt = @ + 1]
            /\ pc' = [pc EXCEPT ![p] = "callback"]
       ELSE Finish(p, "WriteConflict")
    /\ UNCHANGED <<holds, pre, opening, placed, transactions, decisions, now, next_session, next_hold>>

commit_transaction(p) ==
    /\ pc[p] = "commit"
    /\ SetWorld(Commit(World, p))
    /\ Finish(p, "Ok")
    /\ UNCHANGED <<holds, pre, opening, placed, transactions, decisions, now, next_session, next_hold>>

\* max_commit_time_ms=10000: the commit is answered with MaxTimeMSExpired, which
\* with_transaction raises without retrying; the server may or may not have
\* applied the commit (UnknownTransactionCommitResult).
commit_max_time_expired(p) ==
    /\ pc[p] = "commit"
    /\ \E applied \in BOOLEAN :
          SetWorld(IF applied THEN Commit(World, p) ELSE Abort(World, p))
    /\ Finish(p, "MaxTimeMSExpired")
    /\ UNCHANGED <<holds, pre, opening, placed, transactions, decisions, now, next_session, next_hold>>

\* The caller has the outcome; the next call of this caller can begin.
Return(p) ==
    /\ pc[p] = "done"
    /\ pc' = [pc EXCEPT ![p] = "idle"]
    /\ call' = [call EXCEPT ![p] = NoCall]
    /\ pre' = [pre EXCEPT ![p] = NoPre]
    /\ UNCHANGED <<store, tx, opening, placed, transactions, decisions, now, next_session, next_hold>>

\* The process stops (is killed, loses its connection) between the two writes
\* of place_hold_sync or of release_hold_sync: the first write stays, the second
\* is never made, and the process starts afresh.
process_stops(p) ==
    /\ pc[p] \in {"hold_insert", "release_account"}
    /\ pc' = [pc EXCEPT ![p] = "idle"]
    /\ call' = [call EXCEPT ![p] = NoCall]
    /\ pre' = [pre EXCEPT ![p] = NoPre]
    /\ UNCHANGED <<store, tx, opening, placed, transactions, decisions, now, next_session, next_hold>>

\* ------------------------------------------------------------ hold calls
\* place_hold_sync with the amount compared to balance, not available_balance.
place_hold_sync_ChecksBalance(p, account_number, amount, transaction_id, duration_hours) ==
    /\ pc[p] = "idle"
    /\ pre' = [pre EXCEPT ![p] = Pre]
    /\ IF account_number \notin DOMAIN accounts
       THEN /\ pc' = [pc EXCEPT ![p] = "done"]
            /\ call' = [call EXCEPT ![p] =
                          [NoCall EXCEPT !.op = "place_hold",
                                         !.account_number = account_number,
                                         !.amount = amount,
                                         !.result = "AccountNotFound"]]
            /\ UNCHANGED <<next_hold, placed>>
       ELSE IF accounts[account_number].balance < amount
       THEN /\ pc' = [pc EXCEPT ![p] = "done"]
            /\ call' = [call EXCEPT ![p] =
                          [NoCall EXCEPT !.op = "place_hold",
                                         !.account_number = account_number,
                                         !.amount = amount,
                                         !.result = "InsufficientFunds"]]
            /\ UNCHANGED <<next_hold, placed>>
       ELSE /\ CallsBegun < MaxCalls
            /\ next_hold' = next_hold + 1
            /\ placed' = (next_hold + 1 :> accounts[account_number]) @@ placed
            /\ pc' = [pc EXCEPT ![p] = "hold_update"]
            /\ call' = [call EXCEPT ![p] =
                          [NoCall EXCEPT !.op = "place_hold",
                                         !.account_number = account_number,
                                         !.amount = amount,
                                         !.transaction_id = transaction_id,
                                         !.hold = BalanceHold(next_hold + 1, account_number,
                                                              transaction_id, amount,
                                                              now + duration_hours)]]
    /\ UNCHANGED <<store, tx, opening, transactions, decisions, now, next_session>>

\* Lines 314-332: the find_one, the comparison and the BalanceHold object.
place_hold_sync(p, account_number, amount, transaction_id, duration_hours) ==
    /\ pc[p] = "idle"
    /\ pre' = [pre EXCEPT ![p] = Pre]
    /\ IF account_number \notin DOMAIN accounts
       THEN /\ pc' = [pc EXCEPT ![p] = "done"]
            /\ call' = [call EXCEPT ![p] =
                          [NoCall EXCEPT !.op = "place_hold",
                                         !.account_number = account_number,
                                         !.amount = amount,
                                         !.result = "AccountNotFound"]]
            /\ UNCHANGED <<next_hold, placed>>
       ELSE IF accounts[account_number].available_balance < amount
       THEN /\ pc' = [pc EXCEPT ![p] = "done"]
            /\ call' = [call EXCEPT ![p] =
                          [NoCall EXCEPT !.op = "place_hold",
                                         !.account_number = account_number,
                                         !.amount = amount,
                                         !.result = "InsufficientFunds"]]
            /\ UNCHANGED <<next_hold, placed>>
       ELSE /\ CallsBegun < MaxCalls
            /\ next_hold' = next_hold + 1
            /\ placed' = (next_hold + 1 :> accounts[account_number]) @@ placed
            /\ pc' = [pc EXCEPT ![p] = "hold_update"]
            /\ call' = [call EXCEPT ![p] =
                          [NoCall EXCEPT !.op = "place_hold",
                                         !.account_number = account_number,
                                         !.amount = amount,
                                         !.transaction_id = transaction_id,
                                         !.hold = BalanceHold(next_hold + 1, account_number,
                                                              transaction_id, amount,
                                                              now + duration_hours)]]
    /\ UNCHANGED <<store, tx, opening, transactions, decisions, now, next_session>>

\* place_hold's update_one taking the amount off balance as well.
place_hold_update_DebitsBalance(p) ==
    /\ pc[p] = "hold_update"
    /\ ~PendingWrite(p, call[p].account_number)
    /\ LET a == call[p].account_number
       IN /\ accounts' = [accounts EXCEPT
                            ![a].balance = @ - call[p].amount,
                            ![a].available_balance = @ - call[p].amount,
                            ![a].holds = @ \cup {call[p].hold}]
          /\ tx' = MarkStale(tx, p, {a})
    /\ pc' = [pc EXCEPT ![p] = "hold_insert"]
    /\ UNCHANGED <<holds, balance_updates, journal, call, pre, opening, placed, transactions, decisions, now,
                   next_session, next_hold>>

\* Lines 334-341: one update_one, $inc and $push together.  Outside any
\* transaction the write waits for a transaction that has written the document.
place_hold_update(p) ==
    /\ pc[p] = "hold_update"
    /\ ~PendingWrite(p, call[p].account_number)
    /\ LET a == call[p].account_number
       IN /\ accounts' = [accounts EXCEPT
                            ![a].available_balance = @ - call[p].amount,
                            ![a].holds = @ \cup {call[p].hold}]
          /\ tx' = MarkStale(tx, p, {a})
    /\ pc' = [pc EXCEPT ![p] = "hold_insert"]
    /\ UNCHANGED <<holds, balance_updates, journal, call, pre, opening, placed, transactions, decisions, now,
                   next_session, next_hold>>

\* Lines 343-348.
place_hold_insert(p) ==
    /\ pc[p] = "hold_insert"
    /\ holds' = holds \cup {call[p].hold}
    /\ Finish(p, "hold_id")
    /\ UNCHANGED <<accounts, balance_updates, journal, tx, pre, opening, placed, transactions, decisions, now,
                   next_session, next_hold>>

\* The hold document find_one({"hold_id": hold_id}) returns, if any.
FindHold(hold_id) == {h \in holds : h.hold_id = hold_id}

\* release_hold_sync without the look at hold.get("released").
release_hold_sync_NoReleasedCheck(p, hold_id) ==
    /\ pc[p] = "idle"
    /\ pre' = [pre EXCEPT ![p] = Pre]
    /\ IF FindHold(hold_id) = {}
       THEN /\ pc' = [pc EXCEPT ![p] = "done"]
            /\ call' = [call EXCEPT ![p] =
                          [NoCall EXCEPT !.op = "release_hold", !.hold_id = hold_id,
                                         !.result = "False"]]
       ELSE /\ pc' = [pc EXCEPT ![p] = "release_mark"]
            /\ call' = [call EXCEPT ![p] =
                          [NoCall EXCEPT !.op = "release_hold", !.hold_id = hold_id,
                                         !.hold = CHOOSE h \in FindHold(hold_id) : TRUE]]
    /\ UNCHANGED <<store, tx, opening, placed, transactions, decisions, now, next_session, next_hold>>

\* Lines 355-358.
release_hold_sync(p, hold_id) ==
    /\ pc[p] = "idle"
    /\ pre' = [pre EXCEPT ![p] = Pre]
    /\ IF FindHold(hold_id) = {} \/ (\E h \in FindHold(hold_id) : h.released)
       THEN /\ pc' = [pc EXCEPT ![p] = "done"]
            /\ call' = [call EXCEPT ![p] =
                          [NoCall EXCEPT !.op = "release_hold", !.hold_id = hold_id,
                                         !.result = "False"]]
       ELSE /\ pc' = [pc EXCEPT ![p] = "release_mark"]
            /\ call' = [call EXCEPT ![p] =
                          [NoCall EXCEPT !.op = "release_hold", !.hold_id = hold_id,
                                         !.hold = CHOOSE h \in FindHold(hold_id) : TRUE]]
    /\ UNCHANGED <<store, tx, opening, placed, transactions, decisions, now, next_session, next_hold>>

\* Lines 360-369.
release_hold_mark(p) ==
    /\ pc[p] = "release_mark"
    /\ holds' = {IF h.hold_id = call[p].hold.hold_id
                 THEN [h EXCEPT !.released = TRUE]
                 ELSE h : h \in holds}
    /\ pc' = [pc EXCEPT ![p] = "release_account"]
    /\ UNCHANGED <<accounts, balance_updates, journal, tx, call, pre, opening, placed, transactions, decisions, now,
                   next_session, next_hold>>

\* release_hold_account with the $pull and without the $inc.
release_hold_account_PullOnly(p) ==
    /\ pc[p] = "release_account"
    /\ ~PendingWrite(p, call[p].hold.account_number)
    /\ LET a == call[p].hold.account_number
       IN /\ accounts' = [accounts EXCEPT
                            ![a].holds = {h \in @ : h.hold_id # call[p].hold.hold_id}]
          /\ tx' = MarkStale(tx, p, {a})
    /\ Finish(p, "True")
    /\ UNCHANGED <<holds, balance_updates, journal, pre, opening, placed, transactions, decisions, now,
                   next_session, next_hold>>

\* Lines 371-385: $inc by the amount read in the find_one, $pull by hold_id.
release_hold_account(p) ==
    /\ pc[p] = "release_account"
    /\ ~PendingWrite(p, call[p].hold.account_number)
    /\ LET a == call[p].hold.account_number
       IN /\ accounts' = [accounts EXCEPT
                            ![a].available_balance = @ + call[p].hold.amount,
                            ![a].holds = {h \in @ : h.hold_id # call[p].hold.hold_id}]
          /\ tx' = MarkStale(tx, p, {a})
    /\ Finish(p, "True")
    /\ UNCHANGED <<holds, balance_updates, journal, pre, opening, placed, transactions, decisions, now,
                   next_session, next_hold>>

\* -------------------------------------------------------- account calls
\* Lines 34-38.
get_or_create_account_sync(p, account_number, initial_balance) ==
    /\ pc[p] = "idle"
    /\ pre' = [pre EXCEPT ![p] = Pre]
    /\ IF account_number \in DOMAIN accounts
       THEN /\ pc' = [pc EXCEPT ![p] = "done"]
            /\ call' = [call EXCEPT ![p] =
                          [NoCall EXCEPT !.op = "get_or_create_account",
                                         !.account_number = account_number,
                                         !.amount = initial_balance,
                                         !.account = accounts[account_number],
                                         !.result = "Account"]]
       ELSE /\ CallsBegun < MaxCalls
            /\ pc' = [pc EXCEPT ![p] = "account_insert"]
            /\ call' = [call EXCEPT ![p] =
                          [NoCall EXCEPT !.op = "get_or_create_account",
                                         !.account_number = account_number,
                                         !.amount = initial_balance]]
    /\ UNCHANGED <<store, tx, opening, placed, transactions, decisions, now, next_session, next_hold>>

\* insert_one into an accounts collection without the unique index on
\* account_number: the second document of a number is stored as well, and
\* find_one returns it from then on.
account_insert_NoUniqueIndex(p) ==
    /\ pc[p] = "account_insert"
    /\ LET a == call[p].account_number
       IN /\ accounts' = [b \in DOMAIN accounts \cup {a} |->
                            IF b = a THEN Account(call[p].amount, 0) ELSE accounts[b]]
          /\ opening' = [b \in DOMAIN opening \cup {a} |->
                            IF b = a THEN call[p].amount ELSE opening[b]]
          /\ pc' = [pc EXCEPT ![p] = "done"]
          /\ call' = [call EXCEPT ![p].account = Account(call[p].amount, 0),
                                  ![p].result = "Account"]
    /\ UNCHANGED <<holds, balance_updates, journal, tx, pre, placed, transactions, decisions,
                   now, next_session, next_hold>>

\* Lines 40-53: insert_one; the unique index on account_number
\* (scripts/setup_mongodb.py) refuses a second document of the same number.
account_insert(p) ==
    /\ pc[p] = "account_insert"
    /\ LET a == call[p].account_number
       IN IF a \in DOMAIN accounts
          THEN /\ Finish(p, "DuplicateKeyError")
               /\ UNCHANGED <<accounts, opening>>
          ELSE /\ accounts' = (a :> Account(call[p].amount, 0)) @@ accounts
               /\ opening' = (a :> call[p].amount) @@ opening
               /\ pc' = [pc EXCEPT ![p] = "done"]
               /\ call' = [call EXCEPT ![p].account = Account(call[p].amount, 0),
                                       ![p].result = "Account"]
    /\ UNCHANGED <<holds, balance_updates, journal, tx, pre, placed, transactions, decisions,
                   now, next_session, next_hold>>

\* Line 70.
has_funds(account, amount) ==
    account.available_balance + account.overdraft_limit >= amount

\* Lines 58-80.
check_sufficient_funds_sync(p, account_number, amount) ==
    /\ pc[p] = "idle"
    /\ pre' = [pre EXCEPT ![p] = Pre]
    /\ pc' = [pc EXCEPT ![p] = "done"]
    /\ call' = [call EXCEPT ![p] =
                  [NoCall EXCEPT !.op = "check_sufficient_funds",
                                 !.account_number = account_number,
                                 !.amount = amount,
                                 !.result =
                                    IF account_number \notin DOMAIN accounts
                                    THEN "AccountNotFound"
                                    ELSE IF has_funds(accounts[account_number], amount)
                                    THEN "True" ELSE "False"]]
    /\ UNCHANGED <<store, tx, opening, placed, transactions, decisions, now, next_session, next_hold>>

\* ----------------------------------------------------------- read calls
\* A call that only reads: it returns what it found and writes nothing.
ReadCall(p, c) ==
    /\ pc[p] = "idle"
    /\ pre' = [pre EXCEPT ![p] = Pre]
    /\ pc' = [pc EXCEPT ![p] = "done"]
    /\ call' = [call EXCEPT ![p] = c]
    /\ UNCHANGED <<store, tx, opening, placed, transactions, decisions, now, next_session, next_hold>>

\* Lines 388-404: find_one with a projection on the three balances.
get_account_balance_sync(p, account_number) ==
    /\ pc[p] = "idle"
    /\ ReadCall(p, IF account_number \notin DOMAIN accounts
                THEN [NoCall EXCEPT !.op = "get_account_balance",
                                    !.account_number = account_number,
                                    !.result = "AccountNotFound"]
                ELSE [NoCall EXCEPT !.op = "get_account_balance",
                                    !.account_number = account_number,
                                    !.account.balance = accounts[account_number].balance,
                                    !.account.available_balance =
                                        accounts[account_number].available_balance,
                                    !.account.overdraft_limit =
                                        accounts[account_number].overdraft_limit,
                                    !.result = "balances"])

\* get_account_sync that releases the holds past expires_at it finds on the
\* account.
get_account_sync_ReleasesExpired(p, account_number) ==
    /\ pc[p] = "idle"
    /\ account_number \in DOMAIN accounts
    /\ pre' = [pre EXCEPT ![p] = Pre]
    /\ pc' = [pc EXCEPT ![p] = "done"]
    /\ LET expired == {h \in accounts[account_number].holds : now > h.expires_at}
           kept == accounts[account_number].holds \ expired
           doc == [accounts[account_number] EXCEPT
                      !.holds = kept,
                      !.available_balance = IF expired = {} THEN @ ELSE
                          accounts[account_number].balance
                             - (IF kept = {} THEN 0
                                ELSE (CHOOSE h \in kept : TRUE).amount)]
       IN /\ accounts' = [accounts EXCEPT ![account_number] = doc]
          /\ call' = [call EXCEPT ![p] =
                        [NoCall EXCEPT !.op = "get_account",
                                       !.account_number = account_number,
                                       !.account = doc, !.result = "Account"]]
    /\ UNCHANGED <<holds, balance_updates, journal, tx, opening, placed, transactions, decisions,
                   now, next_session, next_hold>>

\* Lines 407-418: find_one, the whole document with its holds.
get_account_sync(p, account_number) ==
    /\ pc[p] = "idle"
    /\ ReadCall(p, IF account_number \notin DOMAIN accounts
                THEN [NoCall EXCEPT !.op = "get_account",
                                    !.account_number = account_number,
                                    !.result = "AccountNotFound"]
                ELSE [NoCall EXCEPT !.op = "get_account",
                                    !.account_number = account_number,
                                    !.account = accounts[account_number],
                                    !.result = "Account"])

\* Lines 421-430: find on balance_updates, for a history shorter than the limit.
get_transaction_history_sync(p, account_number, limit) ==
    LET updates == {u \in balance_updates : u.account_number = account_number}
    IN /\ Cardinality(updates) <= limit
       /\ ReadCall(p, [NoCall EXCEPT !.op = "get_transaction_history",
                                     !.account_number = account_number,
                                     !.rows = updates,
                                     !.result = "updates"])

\* database/repositories.py: the three risk queries are aggregate() pipelines
\* over the transactions collection with no $out and no $merge stage.  Scores
\* are counted in hundredths, combined scores in thousandths.
Min(a, b) == IF a <= b THEN a ELSE b
Abs(n) == IF n >= 0 THEN n ELSE -n

\* $limit: k documents of the stage's input, in the order the store yields them.
Limit(docs, k) == {c \in SUBSET docs : Cardinality(c) = Min(k, Cardinality(docs))}

\* The $match stage without the range of the amount.
match_stage_AnyAmount(transaction_details) ==
    {t \in transactions :
        \/ t.transaction_type = transaction_details.transaction_type
        \/ /\ t.sender.country = transaction_details.sender.country
           /\ t.recipient.country = transaction_details.recipient.country}

\* Lines 374-394, $match: the type with the amount between amount * 0.8 and
\* amount * 1.2, or the pair of countries.
match_stage(transaction_details) ==
    {t \in transactions :
        \/ /\ t.transaction_type = transaction_details.transaction_type
           /\ 10 * t.amount >= 8 * transaction_details.amount
           /\ 10 * t.amount <= 12 * transaction_details.amount
        \/ /\ t.sender.country = transaction_details.sender.country
           /\ t.recipient.country = transaction_details.recipient.country}

\* $vectorSearch: the k documents of the type nearest to the query vector, among
\* those that have an embedding.
VectorSearch(transaction_type, k) ==
    LET eligible == {t \in transactions :
                        /\ t.embedding # NoEmbedding
                        /\ t.transaction_type = transaction_type}
    IN {c \in Limit(eligible, k) :
           \A x \in c, y \in eligible \ c : x.embedding >= y.embedding}

\* Lines 433-453: 1 - min(1, |doc.amount - amount| / amount), nothing for amount 0.
amount_score(t, amount) ==
    IF amount = 0 THEN 0
    ELSE 100 - Min(100, (Abs(t.amount - amount) * 100) \div Abs(amount))

\* Lines 455-466.
geo_score(t, transaction_details) ==
    IF /\ t.sender.country = transaction_details.sender.country
       /\ t.recipient.country = transaction_details.recipient.country
    THEN 100 ELSE 50

\* Lines 468-474.
type_score(t, transaction_details) ==
    IF t.transaction_type = transaction_details.transaction_type THEN 100 ELSE 30

\* Lines 412, 419 and 431-491: a document of the union with its search_method,
\* its scores ($ifNull gives 0 for the score of the other method) and
\* combined_score.
Candidate(t, search_method, transaction_details) ==
    LET vector_score == IF search_method = "vector" THEN t.embedding ELSE 0
        traditional_score == IF search_method = "traditional" THEN 100 ELSE 0
    IN [doc |-> t, search_method |-> search_method,
        combined_score |->
            4 * vector_score + 2 * traditional_score
              + 2 * amount_score(t, transaction_details.amount)
              + geo_score(t, transaction_details)
              + type_score(t, transaction_details)]

\* Lines 492-493, $sort by combined_score descending: the orders of the
\* candidates a sort can give, equal scores in any order.
RECURSIVE SortedByScore(_)
SortedByScore(candidates) ==
    IF candidates = {} THEN {<<>>}
    ELSE UNION {{<<c>> \o rest : rest \in SortedByScore(candidates \ {c})} :
                  c \in {x \in candidates :
                           \A y \in candidates : x.combined_score >= y.combined_score}}

\* Lines 514-528 and 581-592, $project.
Precedent(t, decision, similarity_score, search_method) ==
    [transaction_id |-> t.transaction_id, amount |-> t.amount,
     transaction_type |-> t.transaction_type,
     decision |-> decision.decision, risk_score |-> decision.risk_score,
     search_method |-> search_method,
     similarity_score |-> similarity_score, confidence |-> decision.confidence_score]

\* The decisions of a transaction in the order of their decision_id.
RECURSIVE InOrder(_)
InOrder(ds) ==
    IF ds = {} THEN <<>>
    ELSE LET d == CHOOSE x \in ds : \A y \in ds : x.decision_id <= y.decision_id
         IN <<d>> \o InOrder(ds \ {d})

\* Lines 498-528, $lookup and $unwind: one row for each decision of the
\* candidate's transaction_id, none for a candidate without a decision.
RECURSIVE JoinDecisions(_)
JoinDecisions(candidates) ==
    IF candidates = <<>> THEN <<>>
    ELSE LET c == Head(candidates)
             ds == InOrder({d \in decisions : d.transaction_id = c.doc.transaction_id})
         IN [i \in 1..Len(ds) |->
                Precedent(c.doc, ds[i], c.combined_score, c.search_method)]
               \o JoinDecisions(Tail(candidates))

\* Lines 396-429: the candidates of the pipeline before they are scored.
Candidates(embedding, transaction_details, limit) ==
    IF embedding
    THEN {{Candidate(t, "traditional", transaction_details) : t \in traditional}
             \cup {Candidate(t, "vector", transaction_details) : t \in vector} :
            traditional \in Limit(match_stage(transaction_details), limit \div 2),
            vector \in VectorSearch(transaction_details.transaction_type, limit \div 2)}
    ELSE {{Candidate(t, "none", transaction_details) : t \in traditional} :
            traditional \in Limit(match_stage(transaction_details), limit)}

\* Lines 371-529: the lists the pipeline can return.
HybridPipeline(embedding, transaction_details, limit) ==
    UNION {{JoinDecisions(SubSeq(sorted, 1, Min(limit, Len(sorted)))) :
               sorted \in SortedByScore(candidates)} :
             candidates \in Candidates(embedding, transaction_details, limit)}

\* Lines 553-594: the lists the pipeline of the vector-only search can return.
VectorPipeline(transaction_type, limit) ==
    UNION {{JoinDecisions(sorted) :
               sorted \in SortedByScore({[doc |-> t, search_method |-> "",
                                          combined_score |-> t.embedding] : t \in found})} :
             found \in VectorSearch(transaction_type, limit)}

\* hybrid_search_similar_transactions that answers a failed aggregate with an
\* empty list.
hybrid_search_similar_transactions_Swallows(p, embedding, transaction_details, limit) ==
    /\ pc[p] = "idle"
    /\ \E fails \in BOOLEAN :
          /\ (embedding /\ limit \div 2 = 0) => fails
          /\ IF fails
             THEN ReadCall(p, [NoCall EXCEPT !.op = "hybrid_search",
                                             !.embedding = embedding,
                                             !.transaction_details = transaction_details,
                                             !.limit = limit,
                                             !.path = "failed",
                                             !.result = "precedents"])
             ELSE \E precedents \in HybridPipeline(embedding, transaction_details, limit) :
                     ReadCall(p, [NoCall EXCEPT !.op = "hybrid_search",
                                                !.embedding = embedding,
                                                !.transaction_details = transaction_details,
                                                !.limit = limit,
                                                !.path = "hybrid",
                                                !.precedents = precedents,
                                                !.result = "precedents"])

\* Lines 357-544.  aggregate raises when the server reports an error, as it does
\* for the stage $limit: 0 that limit // 2 makes of limit = 1; with an embedding
\* the search then goes on to the vector-only search, without one the error is
\* raised.
hybrid_search_similar_transactions(p, embedding, transaction_details, limit) ==
    /\ pc[p] = "idle"
    /\ \E fails \in BOOLEAN :
          /\ (embedding /\ limit \div 2 = 0) => fails
          /\ IF fails
             THEN /\ pre' = [pre EXCEPT ![p] = Pre]
                  /\ pc' = [pc EXCEPT ![p] = IF embedding THEN "vector_fallback" ELSE "done"]
                  /\ call' = [call EXCEPT ![p] =
                                [NoCall EXCEPT !.op = "hybrid_search",
                                               !.embedding = embedding,
                                               !.transaction_details = transaction_details,
                                               !.limit = limit,
                                               !.path = "failed",
                                               !.result = IF embedding THEN "" ELSE "error"]]
                  /\ UNCHANGED <<store, tx, opening, placed, transactions, decisions, now,
                                 next_session, next_hold>>
             ELSE \E precedents \in HybridPipeline(embedding, transaction_details, limit) :
                     ReadCall(p, [NoCall EXCEPT !.op = "hybrid_search",
                                                !.embedding = embedding,
                                                !.transaction_details = transaction_details,
                                                !.limit = limit,
                                                !.path = "hybrid",
                                                !.precedents = precedents,
                                                !.result = "precedents"])

\* Lines 539-543: the fallback; what vector_search_similar_transactions returns
\* is returned, what it raises is raised.
hybrid_search_fallback(p) ==
    /\ pc[p] = "vector_fallback"
    /\ pc' = [pc EXCEPT ![p] = "done"]
    /\ \/ call' = [call EXCEPT ![p].path = "fallback", ![p].result = "error"]
       \/ \E precedents \in VectorPipeline(call[p].transaction_details.transaction_type,
                                           call[p].limit) :
             call' = [call EXCEPT ![p].path = "fallback",
                                  ![p].precedents = precedents,
                                  ![p].result = "precedents"]
    /\ UNCHANGED <<store, tx, pre, opening, placed, transactions, decisions, now,
                   next_session, next_hold>>

\* Lines 547-604.
vector_search_similar_transactions(p, transaction_type, limit) ==
    /\ pc[p] = "idle"
    /\ \/ ReadCall(p, [NoCall EXCEPT !.op = "vector_search", !.limit = limit,
                                     !.transaction_details.transaction_type = transaction_type,
                                     !.result = "error"])
       \/ \E precedents \in VectorPipeline(transaction_type, limit) :
             ReadCall(p, [NoCall EXCEPT !.op = "vector_search", !.limit = limit,
                                        !.transaction_details.transaction_type = transaction_type,
                                        !.precedents = precedents,
                                        !.result = "precedents"])

\* Lines 340-346: insert_one into decisions; nothing there is unique.
create_decision_sync(p, decision) ==
    /\ pc[p] = "idle"
    /\ pre' = [pre EXCEPT ![p] = Pre]
    /\ pc' = [pc EXCEPT ![p] = "done"]
    /\ call' = [call EXCEPT ![p] =
                  [NoCall EXCEPT !.op = "create_decision",
                                 !.transaction_id = decision.transaction_id,
                                 !.result = "decision_id"]]
    /\ decisions' = decisions \cup {decision}
    /\ UNCHANGED <<store, tx, opening, placed, transactions, now, next_session, next_hold>>

\* Line 614: the clock counts hours, the window is given in days.
cutoff_date(time_window_days) == now - HoursPerDay * time_window_days

RECURSIVE TotalAmount(_)
TotalAmount(docs) ==
    IF docs = {} THEN 0
    ELSE LET d == CHOOSE x \in docs : TRUE IN d.amount + TotalAmount(docs \ {d})

RECURSIVE Maximum(_)
Maximum(ns) ==
    IF ns = {} THEN 0
    ELSE LET n == CHOOSE x \in ns : TRUE
             m == Maximum(ns \ {n})
         IN IF n >= m THEN n ELSE m

\* $graphLookup that enters a document at every depth at which it is reached.
RECURSIVE GraphLookup_EveryDepth(_, _, _, _, _)
GraphLookup_EveryDepth(from, frontier, depth, maxDepth, visited) ==
    LET found == {t \in from : t.sender.account_number \in frontier}
    IN {[doc |-> t, chain_depth |-> depth] : t \in found}
          \cup (IF depth < maxDepth /\ found # {}
                THEN GraphLookup_EveryDepth(from,
                                   {t.recipient.account_number : t \in found},
                                   depth + 1, maxDepth, visited \cup found)
                ELSE {})

\* Lines 633-644, $graphLookup: breadth first from the values in frontier, a
\* document of `from` is connected when its sender.account_number is one of
\* them; a document enters the result once, with the depth at which it was
\* first reached; the search goes on from the recipient.account_number of the
\* documents newly found, down to maxDepth.
RECURSIVE GraphLookup(_, _, _, _, _)
GraphLookup(from, frontier, depth, maxDepth, visited) ==
    LET found == {t \in from : t.sender.account_number \in frontier} \ visited
    IN {[doc |-> t, chain_depth |-> depth] : t \in found}
          \cup (IF depth < maxDepth /\ found # {}
                THEN GraphLookup(from,
                                 {t.recipient.account_number : t \in found},
                                 depth + 1, maxDepth, visited \cup found)
                ELSE {})

\* Lines 618-630, $match: the transactions of the account inside the window.
SeedTransactions(account_id, time_window_days) ==
    {t \in transactions :
        /\ \/ t.sender.account_number = account_id
           \/ t.recipient.account_number = account_id
        /\ t.timestamp >= cutoff_date(time_window_days)}

\* Lines 633-644: the chain of one seed; restrictSearchWithMatch keeps the
\* search to the documents inside the window.
transaction_chain(seed, max_depth, time_window_days) ==
    GraphLookup({t \in transactions : t.timestamp >= cutoff_date(time_window_days)},
                {seed.recipient.account_number}, 0, max_depth, {})

\* Lines 647-699, $project: what is kept of one seed and its chain.  The chain
\* itself is kept here beside the figures taken from it.
NetworkOf(seed, account_id, max_depth, time_window_days) ==
    LET chain == transaction_chain(seed, max_depth, time_window_days)
        chain_docs == {c.doc : c \in chain}
    IN [transaction_chain |-> chain,
        root_transaction |-> seed.transaction_id,
        network_size |-> Cardinality(chain),
        total_network_amount |-> TotalAmount(chain_docs),
        unique_accounts |-> {d.sender.account_number : d \in chain_docs}
                               \cup {d.recipient.account_number : d \in chain_docs},
        rapid_cycling |->
            Cardinality({c \in chain :
                            /\ c.chain_depth = max_depth
                            /\ c.doc.recipient.account_number = account_id}) >= 1,
        potential_layering |->
            Cardinality({c \in chain : c.doc.amount < LayeringAmount}) >= LayeringCount]

\* Lines 701-758, $group and the answer made of it.
RECURSIVE TotalNetworkAmount(_)
TotalNetworkAmount(networks) ==
    IF networks = {} THEN 0
    ELSE LET n == CHOOSE x \in networks : TRUE
         IN n.total_network_amount + TotalNetworkAmount(networks \ {n})

NetworkSummary(networks) ==
    LET suspicious == {n \in networks : n.rapid_cycling \/ n.potential_layering}
        max_size == Maximum({n.network_size : n \in networks})
        total == TotalNetworkAmount(networks)
    IN [total_networks_found |-> Cardinality(networks),
        max_network_size |-> max_size,
        total_amount_in_networks |-> total,
        suspicious_networks_count |-> Cardinality(suspicious),
        unique_accounts_in_networks |->
            Cardinality(UNION {n.unique_accounts : n \in networks}),
        risk_indicators |-> [has_suspicious_patterns |-> Cardinality(suspicious) > 0,
                             large_network_detected |-> max_size > LargeNetwork,
                             high_value_network |-> total > HighValueNetwork]]

\* Lines 607-770.
graph_network_analysis(p, account_id, max_depth, time_window_days) ==
    /\ pc[p] = "idle"
    /\ LET networks == {NetworkOf(seed, account_id, max_depth, time_window_days) :
                           seed \in SeedTransactions(account_id, time_window_days)}
       IN ReadCall(p, [NoCall EXCEPT !.op = "network_analysis",
                                     !.account_number = account_id,
                                     !.max_depth = max_depth,
                                     !.time_window_days = time_window_days,
                                     !.rows = networks,
                                     !.summary = IF networks = {} THEN NoSummary
                                                 ELSE NetworkSummary(networks),
                                     !.result = IF networks = {} THEN "no_networks"
                                                ELSE "summary"])

\* TransactionRepository.create_transaction: insert_one into transactions, which
\* has a unique index on transaction_id (database/connection.py).
create_transaction(p, transaction) ==
    /\ pc[p] = "idle"
    /\ pre' = [pre EXCEPT ![p] = Pre]
    /\ pc' = [pc EXCEPT ![p] = "done"]
    /\ IF \E t \in transactions : t.transaction_id = transaction.transaction_id
       THEN /\ call' = [call EXCEPT ![p] =
                          [NoCall EXCEPT !.op = "create_transaction",
                                         !.transaction_id = transaction.transaction_id,
                                         !.result = "DuplicateKeyError"]]
            /\ UNCHANGED transactions
       ELSE /\ call' = [call EXCEPT ![p] =
                          [NoCall EXCEPT !.op = "create_transaction",
                                         !.transaction_id = transaction.transaction_id,
                                         !.result = "transaction_id"]]
            /\ transactions' = transactions \cup {transaction}
    /\ UNCHANGED <<store, tx, opening, placed, decisions, now, next_session, next_hold>>

\* Time passes: the clock is two hours further on.
Tick ==
    /\ now < 2 * MaxTime
    /\ now' = now + 2
    /\ UNCHANGED <<store, tx, pc, call, pre, opening, placed, transactions, decisions, next_session, next_hold>>

\* ------------------------------------------------------- specifications
\* The transaction ids a caller passes: one passed before, or the next new one.
FreshOrUsed == {t \in TransactionIds : t <= next_session + 1}

\* One caller: every call runs to its end before the next one begins.
Next ==
    \E p \in SeqProcs :
        \/ \E s \in AccountNumbers, r \in AccountNumbers, amt \in Amounts,
              t \in FreshOrUsed : execute_transfer_with_acid(p, s, r, amt, t)
        \/ callback_debit(p)
        \/ callback_credit(p)
        \/ commit_transaction(p)
        \/ commit_max_time_expired(p)
        \/ \E a \in AccountNumbers, amt \in Amounts :
              place_hold_sync(p, a, amt, 1, 1)
        \/ place_hold_update(p)
        \/ place_hold_insert(p)
        \/ \E h \in HoldIds : release_hold_sync(p, h)
        \/ release_hold_mark(p)
        \/ release_hold_account(p)
        \/ \E a \in AccountNumbers, b \in InitialBalances :
              get_or_create_account_sync(p, a, b)
        \/ account_insert(p)
        \/ \E a \in AccountNumbers, amt \in Amounts :
              check_sufficient_funds_sync(p, a, amt)
        \/ Return(p)

Spec == Init /\ [][Next]_vars

Quiescent == \A p \in Procs : pc[p] \in {"idle", "done"}

\* One caller, and a clock that moves between calls: transfers between the
\* provisioned accounts, holds and releases.
NextTime ==
    \/ \E p \in SeqProcs :
          \/ \E s \in Provisioned, r \in Provisioned, amt \in Amounts :
                execute_transfer_with_acid(p, s, r, amt, next_session + 1)
          \/ callback_debit(p)
          \/ callback_credit(p)
          \/ commit_transaction(p)
          \/ \E a \in Provisioned, amt \in Amounts :
                place_hold_sync(p, a, amt, 1, 1)
          \/ place_hold_update(p)
          \/ place_hold_insert(p)
          \/ \E h \in HoldIds : release_hold_sync(p, h)
          \/ release_hold_mark(p)
          \/ release_hold_account(p)
          \/ Return(p)
    \/ (\A p \in Procs : pc[p] = "idle") /\ Tick

SpecTime == Init /\ [][NextTime]_vars

\* Concurrent callers: the steps of their calls interleave.
NextConc ==
    \E p \in Procs :
        \/ \E s \in Provisioned, r \in Provisioned, amt \in ConcAmounts,
              t \in FreshOrUsed : execute_transfer_with_acid(p, s, r, amt, t)
        \/ callback_retry(p)
        \/ callback_debit(p)
        \/ callback_credit(p)
        \/ write_conflict(p)
        \/ commit_transaction(p)
        \/ commit_max_time_expired(p)
        \/ \E a \in Provisioned, amt \in ConcAmounts :
              place_hold_sync(p, a, amt, 1, 1)
        \/ place_hold_update(p)
        \/ place_hold_insert(p)
        \/ \E h \in HoldIds : release_hold_sync(p, h)
        \/ release_hold_mark(p)
        \/ release_hold_account(p)
        \/ Return(p)

SpecConc == Init /\ [][NextConc]_vars

\* Concurrent callers on accounts where the sender can pay for a transfer and a
\* hold at once: transfers with a new transaction_id between two different
\* provisioned accounts, holds and releases.
InitRace ==
    /\ accounts = ("A" :> [holds |-> {}, balance |-> 2,
                           available_balance |-> 2,
                           overdraft_limit |-> 0, total_deposits |-> 0,
                           total_withdrawals |-> 0, transaction_count |-> 0,
                           updated_at |-> 0])
               @@ ("B" :> [holds |-> {}, balance |-> 0,
                           available_balance |-> 0,
                           overdraft_limit |-> 0, total_deposits |-> 0,
                           total_withdrawals |-> 0, transaction_count |-> 0,
                           updated_at |-> 0])
    /\ holds = {}
    /\ balance_updates = {}
    /\ journal = {}
    /\ tx = [p \in Procs |-> NoTransaction]
    /\ pc = [p \in Procs |-> "idle"]
    /\ call = [p \in Procs |-> NoCall]
    /\ pre = [p \in Procs |-> NoPre]
    /\ opening = ("A" :> 2) @@ ("B" :> 0)
    /\ placed = NoAccounts
    /\ transactions = TransactionRecords
    /\ decisions = {}
    /\ now = 1
    /\ next_session = 0
    /\ next_hold = 0

NextRace ==
    \E p \in Procs :
        \/ \E s \in Provisioned, amt \in RaceAmounts :
              \E r \in Provisioned \ {s} :
                 execute_transfer_with_acid(p, s, r, amt, next_session + 1)
        \/ callback_retry(p)
        \/ callback_debit(p)
        \/ callback_credit(p)
        \/ write_conflict(p)
        \/ commit_transaction(p)
        \/ \E a \in Provisioned, amt \in ConcAmounts :
              place_hold_sync(p, a, amt, 1, 1)
        \/ place_hold_update(p)
        \/ place_hold_insert(p)
        \/ \E h \in HoldIds : release_hold_sync(p, h)
        \/ release_hold_mark(p)
        \/ release_hold_account(p)
        \/ Return(p)

SpecRace == InitRace /\ [][NextRace]_vars

\* The steps with_transaction takes for the transfer of caller p.
TransferStep(p) ==
    \/ callback_retry(p)
    \/ callback_debit(p)
    \/ callback_credit(p)
    \/ write_conflict(p)
    \/ commit_transaction(p)

\* Concurrent transfers alone, each caller's transfer taking its steps as long as
\* it has one to take.
NextRetry ==
    \E p \in Procs :
        \/ \E s \in Provisioned, amt \in RaceAmounts :
              \E r \in Provisioned \ {s} :
                 execute_transfer_with_acid(p, s, r, amt, next_session + 1)
        \/ TransferStep(p)
        \/ Return(p)

SpecRetry ==
    InitRace /\ [][NextRetry]_vars /\ \A p \in Procs : WF_vars(TransferStep(p))

\* One caller and the clock: holds, releases, transfers between two different
\* provisioned accounts, and the calls that read.
NextRead ==
    \/ \E p \in SeqProcs :
          \/ \E s \in Provisioned, amt \in ConcAmounts :
                \E r \in Provisioned \ {s} :
                   execute_transfer_with_acid(p, s, r, amt, next_session + 1)
          \/ callback_debit(p)
          \/ callback_credit(p)
          \/ commit_transaction(p)
          \/ \E a \in Provisioned, amt \in ConcAmounts :
                place_hold_sync(p, a, amt, 1, 1)
          \/ place_hold_update(p)
          \/ place_hold_insert(p)
          \/ \E h \in HoldIds : release_hold_sync(p, h)
          \/ release_hold_mark(p)
          \/ release_hold_account(p)
          \/ \E a \in AccountNumbers : get_account_balance_sync(p, a)
          \/ \E a \in AccountNumbers : get_account_sync(p, a)
          \/ \E a \in Provisioned, amt \in ConcAmounts :
                check_sufficient_funds_sync(p, a, amt)
          \/ \E a \in Provisioned : get_transaction_history_sync(p, a, HistoryLimit)
          \/ \E e \in BOOLEAN :
                hybrid_search_similar_transactions(
                    p, e, TransactionDetails("wire_transfer", 1, "US", "US"), DefaultLimit)
          \/ hybrid_search_fallback(p)
          \/ vector_search_similar_transactions(p, "wire_transfer", DefaultLimit)
          \/ \E a \in Provisioned : graph_network_analysis(p, a, DefaultDepth, DefaultWindow)
          \/ Return(p)
    \/ (\A p \in Procs : pc[p] = "idle") /\ Tick

SpecRead == Init /\ [][NextRead]_vars

\* Concurrent callers of get_or_create_account_sync, among holds placed on the
\* accounts there are.
NextCreate ==
    \E p \in Procs :
        \/ \E a \in AccountNumbers, b \in InitialBalances :
              get_or_create_account_sync(p, a, b)
        \/ account_insert(p)
        \/ \E a \in AccountNumbers, amt \in ConcAmounts :
              place_hold_sync(p, a, amt, 1, 1)
        \/ place_hold_update(p)
        \/ place_hold_insert(p)
        \/ Return(p)

SpecCreate == Init /\ [][NextCreate]_vars

\* The stores before any transaction or decision is on record.
InitRisk ==
    /\ accounts = NoAccounts
    /\ holds = {}
    /\ balance_updates = {}
    /\ journal = {}
    /\ tx = [p \in Procs |-> NoTransaction]
    /\ pc = [p \in Procs |-> "idle"]
    /\ call = [p \in Procs |-> NoCall]
    /\ pre = [p \in Procs |-> NoPre]
    /\ opening = <<>>
    /\ placed = NoAccounts
    /\ transactions = {}
    /\ decisions = {}
    /\ now = 1
    /\ next_session = 0
    /\ next_hold = 0

\* The transfers that get on record in the runs of the network analysis: who
\* pays whom, and how much.
GraphLinks ==
    {[transaction_id |-> 1, amount |-> 1, sender |-> "A", recipient |-> "B"],
     [transaction_id |-> 2, amount |-> 1, sender |-> "B", recipient |-> "C"],
     [transaction_id |-> 3, amount |-> 1, sender |-> "C", recipient |-> "A"],
     [transaction_id |-> 4, amount |-> 1, sender |-> "A", recipient |-> "C"],
     [transaction_id |-> 5, amount |-> 1, sender |-> "B", recipient |-> "A"],
     [transaction_id |-> 6, amount |-> 1000, sender |-> "C", recipient |-> "B"]}

Depths == 0..MaxDepth
Windows == {0, 1}

\* One caller and the clock: transactions are put on record as time goes by and
\* the network of an account is analysed.
NextGraph ==
    \/ \E p \in SeqProcs :
          \/ \E l \in GraphLinks :
                create_transaction(p, TransactionRecord(l.transaction_id, l.sender,
                                                        l.recipient, l.amount,
                                                        "wire_transfer", now,
                                                        "US", "US", NoEmbedding))
          \/ \E a \in AccountNumbers, d \in Depths, w \in Windows :
                graph_network_analysis(p, a, d, w)
          \/ Return(p)
    \/ (\A p \in Procs : pc[p] = "idle") /\ Tick

SpecGraph == InitRisk /\ [][NextGraph]_vars

\* The transactions and decisions that get on record in the runs of the
\* precedent search, and the candidates precedents are searched for.
SearchTransactions ==
    {TransactionRecord(1, "A", "B", 5, "wire_transfer", 1, "US", "US", 90),
     TransactionRecord(2, "A", "B", 4, "wire_transfer", 1, "US", "MX", 50),
     TransactionRecord(3, "A", "B", 7, "ach_transfer", 1, "US", "US", 70),
     TransactionRecord(4, "A", "B", 9, "ach_transfer", 1, "MX", "MX", NoEmbedding)}

SearchDecisions ==
    {TransactionDecision(1, 1, "approve", 90, 10),
     TransactionDecision(2, 1, "reject", 80, 70),
     TransactionDecision(3, 2, "approve", 70, 20),
     TransactionDecision(4, 3, "reject", 60, 80)}

SearchDetails ==
    {TransactionDetails(type, amount, "US", "US") :
        type \in {"wire_transfer", "ach_transfer"}, amount \in {0, 5}}

Limits == 1..MaxLimit

\* One caller: transactions and decisions are put on record and precedents are
\* searched.
NextSearch ==
    \E p \in SeqProcs :
        \/ \E t \in SearchTransactions : create_transaction(p, t)
        \/ \E d \in SearchDecisions : create_decision_sync(p, d)
        \/ \E e \in BOOLEAN, details \in SearchDetails, limit \in Limits :
              hybrid_search_similar_transactions(p, e, details, limit)
        \/ hybrid_search_fallback(p)
        \/ \E type \in {"wire_transfer", "ach_transfer"}, limit \in Limits :
              vector_search_similar_transactions(p, type, limit)
        \/ Return(p)

SpecSearch == InitRisk /\ [][NextSearch]_vars

\* One caller that places and releases holds and may stop between the two
\* writes of either.
NextStop ==
    \E p \in SeqProcs :
        \/ \E a \in Provisioned, amt \in RaceAmounts :
              place_hold_sync(p, a, amt, 1, 1)
        \/ place_hold_update(p)
        \/ place_hold_insert(p)
        \/ \E h \in HoldIds : release_hold_sync(p, h)
        \/ release_hold_mark(p)
        \/ release_hold_account(p)
        \/ process_stops(p)
        \/ Return(p)

SpecStop == InitRace /\ [][NextStop]_vars

\* ------------------------------------------------------------ properties
RECURSIVE SumAmount(_)
\* The sum of the amount fields of a set of records.
SumAmount(S) ==
    IF S = {} THEN 0
    ELSE LET x == CHOOSE y \in S : TRUE IN x.amount + SumAmount(S \ {x})

Transfers == {p \in Procs : call[p].op = "transfer"}

Reported(p) == pc[p] = "done"

\* The collections are what they were when the call of p began.
StoreAsBefore(p) ==
    /\ accounts = pre[p].accounts
    /\ holds = pre[p].holds
    /\ balance_updates = pre[p].balance_updates
    /\ journal = pre[p].journal

CommittedBefore(p, transaction_id) ==
    \E j \in pre[p].journal : j.transaction_id = transaction_id /\ j.committed

\* C1: a transfer call that carries the transaction_id of a transfer committed
\* before it leaves the accounts, the balance_updates rows and the journal as they
\* were, and the journal holds at most one committed entry per transaction_id.
C1_Idempotency ==
    /\ \A p \in Transfers :
          Reported(p) /\ CommittedBefore(p, call[p].transaction_id) => StoreAsBefore(p)
    /\ \A j1 \in journal, j2 \in journal :
          j1.transaction_id = j2.transaction_id /\ j1.committed /\ j2.committed
             => j1 = j2

Credits(a) ==
    {[amount |-> j.credit_amount, entry |-> j] :
        j \in {e \in journal : e.committed /\ e.credit_account = a}}

Debits(a) ==
    {[amount |-> j.debit_amount, entry |-> j] :
        j \in {e \in journal : e.committed /\ e.debit_account = a}}

\* C2: every account's balance is its opening balance plus the committed journal
\* credits to it minus the committed journal debits from it.
C2_Reconciliation ==
    \A a \in DOMAIN accounts :
       accounts[a].balance = opening[a] + SumAmount(Credits(a)) - SumAmount(Debits(a))

BothExisted(p) ==
    /\ call[p].sender_account \in DOMAIN pre[p].accounts
    /\ call[p].recipient_account \in DOMAIN pre[p].accounts

C5_BalanceAboveOverdraft ==
    \A a \in DOMAIN accounts : accounts[a].balance >= 0 - accounts[a].overdraft_limit

Invalid(c) == c.amount <= 0 \/ c.sender_account = c.recipient_account

\* C9: a transfer call with amount <= 0 or sender = recipient is answered with
\* ValidationError, gets no further than that, and leaves the store as it was.
C9_ValidationRejects ==
    \A p \in Transfers :
       Invalid(call[p]) =>
          /\ pc[p] = "done"
          /\ call[p].result = "ValidationError"
          /\ StoreAsBefore(p)

\* C10: when a transfer call has reported an error, the store holds no effect of
\* the call, and a transfer is reported as success only when it committed.
C10_ErrorsLeaveNoEffect ==
    \A p \in Transfers :
       Reported(p) =>
          /\ call[p].result # "Ok" => StoreAsBefore(p)
          /\ call[p].result = "Ok" =>
                \E j \in journal : j.session_id = call[p].session_id

HoldsOf(a) == {h \in holds : h.account_number = a}

Expired(h) == now > h.expires_at

\* C3 as claimed: after any sequence of calls and any passage of time, every
\* account's available_balance is its balance minus the amounts of its holds
\* that are neither released nor past expires_at.
C3_AvailableNetOfUnexpiredHolds ==
    Quiescent =>
       \A a \in DOMAIN accounts :
          accounts[a].available_balance =
             accounts[a].balance
                - SumAmount({h \in HoldsOf(a) : ~h.released /\ ~Expired(h)})

\* C3 as amended: after any sequence of calls made one after another and any
\* passage of time, every account's available_balance is its balance minus the
\* amounts of its holds that are not released, past expires_at or not.
C3_AvailableNetOfUnreleasedHolds ==
    Quiescent =>
       \A a \in DOMAIN accounts :
          accounts[a].available_balance =
             accounts[a].balance - SumAmount({h \in HoldsOf(a) : ~h.released})

\* A hold that is past expires_at and not released, on an account that a
\* committed transfer has also written.
C3_Witness ==
    /\ Quiescent
    /\ \E h \in holds :
          /\ ~h.released /\ Expired(h) /\ h.amount > 0
          /\ \E j \in journal : h.account_number \in {j.debit_account, j.credit_account}

\* C7: a transfer that failed InsufficientFunds has left the accounts, the
\* holds, the balance_updates rows and the journal as they were before the call.
C7_InsufficientFundsLeavesNoTrace ==
    \A p \in Transfers :
       Reported(p) /\ call[p].result = "InsufficientFunds" => StoreAsBefore(p)

\* A transfer refused for a hold: the balance covers the amount, the available
\* balance does not.
C7_Witness ==
    \E p \in Transfers :
       /\ Reported(p) /\ call[p].result = "InsufficientFunds"
       /\ BothExisted(p)
       /\ call[p].amount > 0
       /\ accounts[call[p].sender_account].balance >= call[p].amount

JournalOf(session_id) == {j \in journal : j.session_id = session_id}

ExpectedEntry(c) ==
    TransactionJournal(c.transaction_id, c.sender_account, c.amount,
                       c.recipient_account, c.amount, "completed", c.session_id, TRUE)

C6_JournalState ==
    /\ \A s \in 1..next_session : Cardinality(JournalOf(s)) <= 1
    /\ \A j \in journal :
          j.debit_amount = j.credit_amount /\ j.status = "completed" /\ j.committed
    /\ \A p \in Transfers :
          LET c == call[p]
              J == JournalOf(c.session_id)
          IN /\ Reported(p) /\ c.result = "Ok" => J = {ExpectedEntry(c)}
             /\ (~Reported(p)
                   \/ c.result \in {"InsufficientFunds", "AccountNotFound", "WriteConflict"})
                  => J = {}
             /\ J \subseteq {ExpectedEntry(c)}

\* C6: a transfer call that commits has added exactly one journal entry, with
\* debit_account the sender, credit_account the recipient, both amounts the
\* amount, status completed and committed true, however often the callback ran;
\* a call that does not commit adds none; and no entry is changed or removed.
C6_OneEntryPerCommit == []C6_JournalState /\ [][journal \subseteq journal']_vars

\* A transfer that committed on a later run of the callback.
C6_Witness ==
    \E p \in Transfers :
       /\ Reported(p) /\ call[p].result = "Ok" /\ call[p].attempt > 1
       /\ JournalOf(call[p].session_id) = {ExpectedEntry(call[p])}

RowsOf(session_id, operation) ==
    {u \in balance_updates : u.session_id = session_id /\ u.operation = operation}

UpdatesOf(a, operation) ==
    {u \in balance_updates : u.account_number = a /\ u.operation = operation}

NoSelfTransfer(a) ==
    \A j \in journal : ~(j.debit_account = a /\ j.credit_account = a)

\* C8: in every state of the store, of each transfer either the journal entry,
\* both balance_updates rows and both account writes are there, or none of them.
C8_AtomicVisibility ==
    /\ \A s \in 1..next_session :
          <<Cardinality(JournalOf(s)), Cardinality(RowsOf(s, "debit")),
            Cardinality(RowsOf(s, "credit"))>> \in {<<0, 0, 0>>, <<1, 1, 1>>}
    /\ \A a \in DOMAIN accounts :
          /\ accounts[a].transaction_count =
                Cardinality(UpdatesOf(a, "debit")) + Cardinality(UpdatesOf(a, "credit"))
          /\ accounts[a].total_withdrawals = SumAmount(UpdatesOf(a, "debit"))
          /\ accounts[a].total_deposits = SumAmount(UpdatesOf(a, "credit"))
          /\ NoSelfTransfer(a) =>
                accounts[a].balance =
                   opening[a] + SumAmount(UpdatesOf(a, "credit"))
                              - SumAmount(UpdatesOf(a, "debit"))

\* A transfer with all its writes issued and not committed, while another caller
\* is in the middle of a call.
C8_Witness ==
    \E p \in Transfers :
       /\ pc[p] = "commit"
       /\ tx[p].jr # {}
       /\ JournalOf(call[p].session_id) = {}
       /\ \E q \in Procs \ {p} : pc[q] \notin {"idle", "done"}

HoldCalls == {p \in Procs : call[p].op = "place_hold"}

\* What place_hold leaves of the accounts collection pre_accounts: the hold's
\* amount off available_balance of its account, the hold in the hold set.
Held(pre_accounts, hold) ==
    [pre_accounts EXCEPT
        ![hold.account_number].available_balance = @ - hold.amount,
        ![hold.account_number].holds = @ \cup {hold}]

\* C11: place_hold on an existing account fails InsufficientFunds and leaves the
\* store as it was when amount > available_balance; otherwise it takes exactly
\* amount off available_balance, adds one new unreleased hold record and puts it
\* in the account's hold set.  A transfer of more than the sender's
\* available_balance fails InsufficientFunds, whatever the balance.
C11_PlaceHold ==
    /\ \A p \in HoldCalls :
          LET c == call[p]
              a == c.account_number
          IN Reported(p) /\ a \in DOMAIN pre[p].accounts =>
                IF c.amount > pre[p].accounts[a].available_balance
                THEN c.result = "InsufficientFunds" /\ StoreAsBefore(p)
                ELSE /\ c.result = "hold_id"
                     /\ c.hold.amount = c.amount /\ c.hold.account_number = a
                     /\ ~c.hold.released
                     /\ \A h \in pre[p].holds : h.hold_id # c.hold.hold_id
                     /\ accounts = Held(pre[p].accounts, c.hold)
                     /\ holds = pre[p].holds \cup {c.hold}
                     /\ balance_updates = pre[p].balance_updates
                     /\ journal = pre[p].journal
    /\ \A p \in Transfers :
          LET c == call[p]
          IN BothExisted(p) /\ c.amount > pre[p].accounts[c.sender_account].available_balance
                => /\ pc[p] = "done"
                   /\ c.result = "InsufficientFunds"

\* A transfer refused after a hold: the sender's balance covers the amount, its
\* available_balance, lowered by a hold still in its hold set, does not.
C11_Witness ==
    \E p \in Transfers :
       LET c == call[p]
       IN /\ Reported(p) /\ c.result = "InsufficientFunds" /\ BothExisted(p)
          /\ accounts[c.sender_account].balance >= c.amount
          /\ \E h \in accounts[c.sender_account].holds :
                /\ h.amount > 0 /\ ~h.released /\ h \in holds
                /\ accounts[c.sender_account].available_balance =
                      accounts[c.sender_account].balance - h.amount

ReleaseCalls == {p \in Procs : call[p].op = "release_hold"}

\* The hold records of hold_id when the call of p began.
FoundBefore(p) == {h \in pre[p].holds : h.hold_id = call[p].hold_id}

\* The call of p began with the account of hold h as place_hold left it.
NothingSincePlaced(p, h) ==
    pre[p].accounts[h.account_number] =
       Held((h.account_number :> placed[h.hold_id]), h)[h.account_number]

\* C12: release_hold of a hold that is on record and not released returns true
\* and marks it released; when nothing has touched the account since the hold
\* was placed, the account is again what it was before place_hold
\* (available_balance and hold set included).  release_hold of an unknown or a
\* released hold_id returns false and leaves the store as it was.
C12_HoldRoundTrip ==
    \A p \in ReleaseCalls :
       LET c == call[p]
       IN Reported(p) =>
             IF FoundBefore(p) = {} \/ (\E h \in FoundBefore(p) : h.released)
             THEN c.result = "False" /\ StoreAsBefore(p)
             ELSE /\ c.result = "True"
                  /\ \A h \in FoundBefore(p) :
                        /\ holds = (pre[p].holds \ {h}) \cup {[h EXCEPT !.released = TRUE]}
                        /\ NothingSincePlaced(p, h)
                              => accounts[h.account_number] = placed[h.hold_id]

\* A second release of a hold: false, and the account is what it was before the
\* hold was placed.
C12_Witness ==
    \E p \in ReleaseCalls :
       /\ Reported(p) /\ call[p].result = "False"
       /\ \E h \in FoundBefore(p) :
             /\ h.released /\ h.amount > 0
             /\ accounts[h.account_number] = placed[h.hold_id]

\* C13: of the release_hold calls running at once on one hold_id at most one
\* returns true, that is, at most one adds the hold's amount to
\* available_balance.
C13_ReleasedAtMostOnce ==
    \A p \in ReleaseCalls, q \in ReleaseCalls :
       /\ p # q
       /\ call[p].hold_id = call[q].hold_id
       /\ Reported(p) /\ call[p].result = "True"
       => ~(Reported(q) /\ call[q].result = "True")

\* The step of a place_hold call that applies the decrement.
HoldDecrement(p) == pc[p] = "hold_update" /\ pc'[p] = "hold_insert"

\* C14: place_hold applies its decrement only when the amount is at most the
\* account's available_balance at that moment, so no hold brings
\* available_balance below zero.
C14_HoldWithinAvailable ==
    [][\A p \in Procs :
          HoldDecrement(p) =>
             /\ call[p].amount <= accounts[call[p].account_number].available_balance
             /\ accounts'[call[p].account_number].available_balance >= 0]_vars

\* The hold calls that have completed successfully.
HoldDone == {q \in Procs :
               /\ Reported(q)
               /\ \/ call[q].op = "place_hold" /\ call[q].result = "hold_id"
                  \/ call[q].op = "release_hold" /\ call[q].result = "True"}

\* The transfers between two different accounts that have completed successfully.
TransferDone == {p \in Transfers :
                   /\ Reported(p) /\ call[p].result = "Ok"
                   /\ call[p].sender_account # call[p].recipient_account}

\* What the transfer of call c adds to the balances of account a.
TransferEffect(c, a) ==
    IF a = c.sender_account THEN 0 - c.amount
    ELSE IF a = c.recipient_account THEN c.amount
    ELSE 0

\* What the hold call c adds to available_balance.
HoldEffect(c) == IF c.op = "place_hold" THEN 0 - c.hold.amount ELSE c.hold.amount

\* The hold set the hold call c leaves of the hold set before.
HoldSetEffect(c, before) ==
    IF c.op = "place_hold" THEN before \cup {c.hold}
    ELSE {h \in before : h.hold_id # c.hold.hold_id}

\* The hold call of q had not finished when the transfer of p began: the hold it
\* places was not on record yet, the hold it releases was on record unreleased.
Unfinished(p, q) ==
    IF call[q].op = "place_hold"
    THEN \A h \in pre[p].holds : h.hold_id # call[q].hold.hold_id
    ELSE \E h \in pre[p].holds : h.hold_id = call[q].hold.hold_id /\ ~h.released

\* The transfer of p and the hold call of q ran at once on account a: both began
\* with a in the same state, before the other had written it.
Raced(p, q, a) ==
    /\ Unfinished(p, q)
    /\ a \in {call[p].sender_account, call[p].recipient_account}
    /\ a = call[q].hold.account_number
    /\ pre[p].accounts[a] = pre[q].accounts[a]

\* C15: when a transfer and a place_hold or release_hold that ran at once on one
\* account have both completed successfully, the account's available_balance is
\* its value before them with the transferred amount and the held or released
\* amount both applied, its balance has the transferred amount applied and its
\* hold set has the hold added or removed.
C15_NoLostUpdate ==
    \A p \in TransferDone, q \in HoldDone, a \in DOMAIN accounts :
       Raced(p, q, a) =>
          LET before == pre[p].accounts[a]
          IN /\ accounts[a].available_balance =
                   before.available_balance + TransferEffect(call[p], a) + HoldEffect(call[q])
             /\ accounts[a].balance = before.balance + TransferEffect(call[p], a)
             /\ accounts[a].holds = HoldSetEffect(call[q], before.holds)

\* A transfer that met the write of a release_hold on its sender, ran its
\* callback again and committed.
C15_Witness ==
    \E p \in TransferDone, q \in HoldDone :
       /\ Raced(p, q, call[p].sender_account)
       /\ call[q].op = "release_hold"
       /\ call[p].attempt > 1

\* A transfer and a place_hold on the transfer's sender, both begun before either
\* wrote, both completed.
C15_PlacedDuringTransfer ==
    \E p \in TransferDone, q \in HoldDone :
       /\ Raced(p, q, call[p].sender_account)
       /\ call[q].op = "place_hold"

RowsFor(a) == {u \in balance_updates : u.account_number = a}

RECURSIVE Chained(_, _, _)
\* The rows can be put in an order in which each row's previous_balance is the
\* new_balance of the row before it, from the balance `from` to the balance `to`.
Chained(from, rows, to) ==
    IF rows = {} THEN from = to
    ELSE \E u \in rows :
            u.previous_balance = from /\ Chained(u.new_balance, rows \ {u}, to)

\* The balance_updates rows of every account are the steps of one serial history
\* from its opening balance to its balance.
SerialHistory ==
    \A a \in DOMAIN accounts : Chained(opening[a], RowsFor(a), accounts[a].balance)

\* The step in which the transfer of p commits and returns Ok.
Commits(p) == pc[p] = "commit" /\ pc'[p] = "done" /\ call'[p].result = "Ok"

\* The step in which the transfer of p is refused for insufficient funds.
Refused(p) ==
    /\ pc[p] \in {"idle", "callback"}
    /\ pc'[p] = "done" /\ call'[p].op = "transfer"
    /\ call'[p].result = "InsufficientFunds"

\* A transfer that commits read the sender and the recipient as the transfers
\* committed before it left them, and the sender covered the amount; a transfer
\* that is refused read a sender that did not cover it.
SerialStep ==
    \A p \in Procs :
       /\ Commits(p) =>
             /\ accounts[call[p].sender_account] = call[p].sender
             /\ accounts[call[p].recipient_account] = call[p].recipient
             /\ call[p].sender.available_balance >= call[p].amount
       /\ Refused(p) =>
             accounts[call'[p].sender_account].available_balance < call'[p].amount

\* C16: transfers running at once on a shared account leave what a serial run of
\* the committed ones leaves: each committed transfer acts on the accounts as its
\* predecessor left them, no committed debit or credit is missing from the
\* balances or the balance_updates rows, and a transfer the sender cannot pay for
\* at its place in that order fails InsufficientFunds.
C16_TransfersSerialize == []SerialHistory /\ [][SerialStep]_vars

\* Two transfers from one sender running at once: one committed, the other met
\* its write, ran its callback again and was refused for insufficient funds.
C16_Witness ==
    \E p \in TransferDone, q \in Transfers \ TransferDone :
       /\ Reported(q) /\ call[q].result = "InsufficientFunds"
       /\ call[q].attempt > 1
       /\ call[q].sender_account = call[p].sender_account
       /\ \A u \in pre[q].balance_updates : u.session_id # call[p].session_id

\* Two transfers from one sender running at once that both committed.
C16_BothCommitted ==
    \E p \in TransferDone, q \in TransferDone :
       /\ p # q
       /\ call[q].attempt > 1
       /\ call[q].sender_account = call[p].sender_account

InCallback(p) == pc[p] \in {"callback", "debit", "credit", "commit"}

AttemptsBounded ==
    \A p \in Transfers :
       /\ call[p].attempt <= MaxAttempts
       /\ Reported(p) /\ call[p].result = "WriteConflict" => call[p].attempt = MaxAttempts

ReadOps ==
    {"get_account_balance", "get_account", "check_sufficient_funds",
     "get_transaction_history", "hybrid_search", "vector_search", "network_analysis"}

\* The step that is a call of one of the read operations by p.
ReadStep(p) == pc[p] = "idle" /\ call'[p].op \in ReadOps

\* C18: a call of get_account_balance, get_account, check_sufficient_funds,
\* get_transaction_history, hybrid_search, vector_search or network_analysis
\* leaves accounts, holds, balance_updates, journal and transactions as they
\* were, also when the account read has a hold past expires_at.
C18_ReadsChangeNothing ==
    [][\A p \in Procs :
          ReadStep(p) =>
             UNCHANGED <<accounts, holds, balance_updates, journal, transactions, decisions>>]_vars

\* get_account has returned an account with a hold past expires_at: the hold is
\* still unreleased and still off the available_balance.
C18_Witness ==
    \E p \in Procs :
       /\ Reported(p) /\ call[p].op = "get_account" /\ call[p].result = "Account"
       /\ \E h \in call[p].account.holds :
             /\ Expired(h) /\ h.amount > 0
             /\ h \in holds /\ ~h.released
             /\ h \in accounts[h.account_number].holds
             /\ accounts[h.account_number].available_balance =
                   accounts[h.account_number].balance - h.amount

\* The accounts collection after differs from before in available_balance and
\* hold sets only.
OnlyAvailableAndHolds(before, after) ==
    /\ DOMAIN after = DOMAIN before
    /\ \A a \in DOMAIN before :
          [after[a] EXCEPT !.available_balance = before[a].available_balance,
                           !.holds = before[a].holds] = before[a]

HoldFrame(p) ==
    /\ OnlyAvailableAndHolds(pre[p].accounts, accounts)
    /\ balance_updates = pre[p].balance_updates
    /\ journal = pre[p].journal

\* The step is the commit of a transfer.
CommitStep == \E p \in Procs : pc[p] = "commit" /\ pc'[p] = "done"

\* C19: place_hold and release_hold change available_balance, the hold records
\* and the hold set only: balance, overdraft_limit, transaction_count,
\* total_deposits, total_withdrawals, balance_updates and journal are what they
\* were; get_or_create_account on an existing account changes nothing; the
\* balance of an account changes in the commit of a transfer only.
C19_OnlyTransferChangesBalance ==
    /\ [](\A p \in Procs :
            Reported(p) =>
               /\ call[p].op \in {"place_hold", "release_hold"} => HoldFrame(p)
               /\ (/\ call[p].op = "get_or_create_account"
                   /\ call[p].account_number \in DOMAIN pre[p].accounts)
                  => StoreAsBefore(p))
    /\ [][\A a \in DOMAIN accounts :
             accounts'[a].balance # accounts[a].balance => CommitStep]_vars

\* A hold has been placed on an account that transfers have touched.
C19_Witness ==
    \E p \in HoldCalls :
       /\ Reported(p) /\ call[p].result = "hold_id"
       /\ call[p].amount > 0
       /\ accounts[call[p].account_number].transaction_count > 0
       /\ accounts[call[p].account_number].available_balance
             # pre[p].accounts[call[p].account_number].available_balance

\* get_or_create_account has returned an existing account, asked with another
\* initial_balance than the balance on record.
C19_ExistingAccount ==
    \E p \in Procs :
       /\ Reported(p) /\ call[p].op = "get_or_create_account"
       /\ call[p].account_number \in DOMAIN pre[p].accounts
       /\ call[p].amount # accounts[call[p].account_number].balance

CreateCalls == {p \in Procs : call[p].op = "get_or_create_account"}

\* The call of p was a first call: it found no account of that number.
FirstCall(p) == call[p].account_number \notin DOMAIN pre[p].accounts

\* The call of p has put its own account on record.
Created(p) == Reported(p) /\ FirstCall(p) /\ call[p].result = "Account"

\* A step of get_or_create_account by p.
CreateStep(p) ==
    \/ pc[p] = "idle" /\ call'[p].op = "get_or_create_account"
    \/ pc[p] = "account_insert" /\ pc'[p] = "done"

\* C20: a first call of get_or_create_account that puts its account on record
\* leaves one with balance = available_balance = initial_balance and no holds;
\* a call for a number on record returns the stored account, whatever its
\* initial_balance; of two concurrent first calls for one number at most one
\* puts its account on record, the other is refused by the unique index; no step
\* of get_or_create_account changes a record there is, or anything but the one
\* new account.
C20_GetOrCreate ==
    /\ [](\A p \in CreateCalls :
            Reported(p) =>
               LET c == call[p]
               IN /\ c.result \in {"Account", "DuplicateKeyError"}
                  /\ ~FirstCall(p) =>
                        /\ c.result = "Account"
                        /\ c.account = pre[p].accounts[c.account_number]
                  /\ Created(p) =>
                        /\ c.account.balance = c.amount
                        /\ c.account.available_balance = c.amount
                        /\ c.account.holds = {}
                        /\ opening[c.account_number] = c.amount
                  /\ c.result = "DuplicateKeyError" =>
                        FirstCall(p) /\ c.account_number \in DOMAIN accounts)
    /\ [](\A p \in Procs, q \in Procs :
            (/\ p # q /\ Created(p) /\ Created(q))
               => call[p].account_number # call[q].account_number)
    /\ [][\A p \in Procs :
             CreateStep(p) =>
                /\ \A a \in DOMAIN accounts : accounts'[a] = accounts[a]
                /\ DOMAIN accounts' \subseteq DOMAIN accounts \cup {call'[p].account_number}
                /\ \A a \in DOMAIN accounts' \ DOMAIN accounts :
                      accounts'[a] = call'[p].account
                /\ UNCHANGED <<holds, balance_updates, journal>>]_vars

\* Two callers made their first call for the same number at once, with different
\* initial balances: one account is on record, the other caller was refused.
C20_Witness ==
    \E p \in CreateCalls, q \in CreateCalls :
       /\ p # q
       /\ call[p].account_number = call[q].account_number
       /\ call[p].amount # call[q].amount
       /\ Created(p)
       /\ Reported(q) /\ FirstCall(q) /\ call[q].result = "DuplicateKeyError"
       /\ accounts[call[p].account_number].balance = call[p].amount

\* A later call, with another initial_balance, has returned an account that has
\* a hold.
C20_LaterCall ==
    \E p \in CreateCalls :
       /\ Reported(p) /\ ~FirstCall(p)
       /\ call[p].account.holds # {}
       /\ call[p].amount # call[p].account.balance

NetworkCalls == {p \in Procs : call[p].op = "network_analysis"}

InWindow(time_window_days) ==
    {t \in transactions : t.timestamp >= cutoff_date(time_window_days)}

\* There are transfers a -> b, b -> c, c -> a inside the window.
Cycle(a, time_window_days) ==
    \E t1 \in InWindow(time_window_days), t2 \in InWindow(time_window_days),
       t3 \in InWindow(time_window_days) :
       /\ t1.sender.account_number = a
       /\ t1.recipient.account_number = t2.sender.account_number
       /\ t2.recipient.account_number = t3.sender.account_number
       /\ t3.recipient.account_number = a
       /\ Cardinality({a, t1.recipient.account_number, t2.recipient.account_number}) = 3

\* C21 as claimed: when the transactions on record hold a cycle A -> B, B -> C,
\* C -> A inside the window, network_analysis(A, max_depth, window) with
\* max_depth >= 2 finds rapid_cycling: suspicious_networks_count >= 1 and
\* has_suspicious_patterns.
C21_CycleSetsRapidCycling ==
    \A p \in NetworkCalls :
       (/\ Reported(p)
        /\ call[p].max_depth >= 2
        /\ Cycle(call[p].account_number, call[p].time_window_days))
       => /\ \E n \in call[p].rows : n.rapid_cycling
          /\ call[p].summary.suspicious_networks_count >= 1
          /\ call[p].summary.risk_indicators.has_suspicious_patterns

\* The transactions of docs that a walk of k + 1 links reaches from start.
RECURSIVE Level(_, _, _)
Level(docs, start, k) ==
    IF k = 0
    THEN {t \in docs : t.sender.account_number = start}
    ELSE {t \in docs :
            \E u \in Level(docs, start, k - 1) :
               t.sender.account_number = u.recipient.account_number}

\* The chain of a seed, said without a search: the transactions inside the
\* window on some walk from the seed's recipient, each with the length of the
\* shortest such walk.
ChainOf(seed, max_depth, time_window_days) ==
    LET docs == InWindow(time_window_days)
        start == seed.recipient.account_number
    IN {[doc |-> t,
         chain_depth |-> CHOOSE k \in 0..max_depth :
                            /\ t \in Level(docs, start, k)
                            /\ \A j \in 0..(k - 1) : t \notin Level(docs, start, j)] :
          t \in UNION {Level(docs, start, k) : k \in 0..max_depth}}

\* C26: network_analysis starts from the transactions inside the window that
\* touch the account; the chain of each is exactly the set of transactions
\* inside the window reached from its recipient by recipient -> sender links
\* within max_depth, each once and at the smallest depth at which it is reached.
C26_NetworkTraversal ==
    \A p \in NetworkCalls :
       Reported(p) =>
          LET c == call[p]
              seeds == {t \in InWindow(c.time_window_days) :
                          \/ t.sender.account_number = c.account_number
                          \/ t.recipient.account_number = c.account_number}
          IN /\ {n.root_transaction : n \in c.rows} = {t.transaction_id : t \in seeds}
             /\ Cardinality(c.rows) = Cardinality(seeds)
             /\ \A n \in c.rows :
                   \E seed \in seeds :
                      /\ seed.transaction_id = n.root_transaction
                      /\ n.transaction_chain =
                            ChainOf(seed, c.max_depth, c.time_window_days)
                      /\ Cardinality({e.doc : e \in n.transaction_chain}) =
                            Cardinality(n.transaction_chain)
                      /\ n.network_size = Cardinality(n.transaction_chain)

\* An analysis is over on a graph with a cycle: the seed is in its own chain, a
\* transaction of the chain is reached again at a greater depth, and a
\* transaction outside the window is left out.
C26_Witness ==
    \E p \in NetworkCalls :
       /\ Reported(p)
       /\ InWindow(call[p].time_window_days) # transactions
       /\ \E n \in call[p].rows :
             /\ \E e \in n.transaction_chain : e.doc.transaction_id = n.root_transaction
             /\ \E e \in n.transaction_chain, k \in 0..call[p].max_depth :
                   /\ k > e.chain_depth
                   /\ e.doc \in Level(InWindow(call[p].time_window_days),
                                      e.doc.sender.account_number, k - e.chain_depth - 1)

HybridCalls == {p \in Procs : call[p].op = "hybrid_search"}

\* The call of p has returned a list of precedents.
Returned(p) == Reported(p) /\ call[p].result = "precedents"

\* The precedent carries what a decision on record says of its transaction.
Enriched(precedent) ==
    \E d \in decisions :
       /\ d.transaction_id = precedent.transaction_id
       /\ d.decision = precedent.decision
       /\ d.confidence_score = precedent.confidence
       /\ d.risk_score = precedent.risk_score

Ranked(precedents) ==
    \A i \in 1..Len(precedents), j \in 1..Len(precedents) :
       i < j => precedents[i].similarity_score >= precedents[j].similarity_score

\* C22 as claimed: hybrid_search returns at most limit precedents, in the
\* order of non-increasing score, each with the decision, confidence and risk
\* score on record for its transaction_id.
C22_AtMostLimitRankedEnriched ==
    \A p \in HybridCalls :
       Returned(p) =>
          /\ Len(call[p].precedents) <= call[p].limit
          /\ Ranked(call[p].precedents)
          /\ \A i \in 1..Len(call[p].precedents) : Enriched(call[p].precedents[i])

\* C22 without the count: what hybrid_search returns is ranked and enriched.
C22_RankedEnriched ==
    \A p \in HybridCalls :
       Returned(p) =>
          /\ Ranked(call[p].precedents)
          /\ \A i \in 1..Len(call[p].precedents) : Enriched(call[p].precedents[i])

\* C23: when the aggregate of hybrid_search fails and an embedding was given,
\* the vector-only search is run with the candidate's transaction_type and
\* limit, and hybrid_search returns what it returns and raises what it raises;
\* without an embedding the error of the aggregate is raised.  A failed
\* aggregate is never answered with a list of its own.
C23_FallbackToVectorSearch ==
    /\ [](\A p \in HybridCalls :
            /\ (Reported(p) /\ call[p].path = "failed") =>
                  ~call[p].embedding /\ call[p].result = "error"
            /\ (Reported(p) /\ call[p].path = "fallback") =>
                  /\ call[p].embedding
                  /\ \/ call[p].result = "error"
                     \/ /\ call[p].result = "precedents"
                        /\ call[p].precedents \in
                              VectorPipeline(call[p].transaction_details.transaction_type,
                                             call[p].limit)
            /\ pc[p] = "vector_fallback" => call[p].embedding /\ call[p].path = "failed")
    /\ [][\A p \in Procs :
             (pc[p] = "idle" /\ call'[p].op = "hybrid_search" /\ call'[p].path = "failed")
                => pc'[p] = IF call'[p].embedding THEN "vector_fallback" ELSE "done"]_vars

\* The aggregate failed and the fallback has returned precedents.
C23_Witness ==
    \E p \in HybridCalls :
       /\ Returned(p) /\ call[p].path = "fallback"
       /\ Len(call[p].precedents) >= 2
       /\ call[p].limit >= 2

\* The aggregate failed and so did the fallback: the caller has the error.
C23_FallbackFailed ==
    \E p \in HybridCalls :
       Reported(p) /\ call[p].path = "fallback" /\ call[p].result = "error"

\* The transaction on record a precedent was made of.
TransactionOf(precedent) ==
    CHOOSE t \in transactions : t.transaction_id = precedent.transaction_id

SameTypeAndRange(t, details) ==
    /\ t.transaction_type = details.transaction_type
    /\ 10 * t.amount >= 8 * details.amount
    /\ 10 * t.amount <= 12 * details.amount

SameCountries(t, details) ==
    /\ t.sender.country = details.sender.country
    /\ t.recipient.country = details.recipient.country

\* The precedents p got through the exact filter.
FilterPrecedents(p) ==
    {call[p].precedents[i] : i \in {j \in 1..Len(call[p].precedents) :
                                      call[p].precedents[j].search_method
                                         \in {"traditional", "none"}}}

\* C27 as claimed: every precedent retrieved through the exact filter has the
\* candidate's transaction_type, an amount within 20% of the candidate's and the
\* candidate's pair of countries.
C27_AllCriteria ==
    \A p \in HybridCalls :
       (Returned(p) /\ call[p].path = "hybrid") =>
          \A precedent \in FilterPrecedents(p) :
             /\ SameTypeAndRange(TransactionOf(precedent), call[p].transaction_details)
             /\ SameCountries(TransactionOf(precedent), call[p].transaction_details)

\* C27: every precedent retrieved through the exact filter has the candidate's
\* transaction_type with an amount within 20% of the candidate's, or has the
\* candidate's pair of countries.
C27_TypeAndRangeOrCountries ==
    \A p \in HybridCalls :
       (Returned(p) /\ call[p].path = "hybrid") =>
          \A precedent \in FilterPrecedents(p) :
             \/ SameTypeAndRange(TransactionOf(precedent), call[p].transaction_details)
             \/ SameCountries(TransactionOf(precedent), call[p].transaction_details)

\* A search without embedding has returned a precedent of another type, found
\* by its countries, and one of other countries, found by type and amount.
C27_Witness ==
    \E p \in HybridCalls :
       /\ Returned(p) /\ ~call[p].embedding
       /\ \E precedent \in FilterPrecedents(p) :
             ~SameTypeAndRange(TransactionOf(precedent), call[p].transaction_details)
       /\ \E precedent \in FilterPrecedents(p) :
             ~SameCountries(TransactionOf(precedent), call[p].transaction_details)

\* The rows a step appends to balance_updates.
Appended == balance_updates' \ balance_updates

\* The step is the commit of the transfer of p; its two rows are a debit of the
\* sender and a credit of the recipient, and the balances on record are theirs.
TwoLegs(p) ==
    /\ Cardinality(Appended) = 2
    /\ \E d \in Appended, c \in Appended :
          /\ d.operation = "debit" /\ c.operation = "credit"
          /\ d.account_number = call[p].sender_account
          /\ c.account_number = call[p].recipient_account
          /\ d.transaction_id = call[p].transaction_id
          /\ c.transaction_id = call[p].transaction_id
          /\ d.session_id = c.session_id
          /\ d.amount = call[p].amount /\ c.amount = call[p].amount
          /\ d.new_balance = d.previous_balance - call[p].amount
          /\ c.new_balance = c.previous_balance + call[p].amount
          /\ accounts'[d.account_number].balance = d.new_balance
          /\ accounts'[c.account_number].balance = c.new_balance

\* C24: the commit of a transfer appends exactly two rows to balance_updates,
\* with its transaction_id and one session_id: a debit of the sender with
\* new_balance = previous_balance - amount and a credit of the recipient with
\* new_balance = previous_balance + amount; after the commit the balance of each
\* of the two accounts is the new_balance of its row; no other step appends a
\* row, and no step changes or removes one.
C24_TwoRowsPerTransfer ==
    /\ [][balance_updates \subseteq balance_updates']_vars
    /\ [][Appended # {} =>
             \E p \in Procs : pc[p] = "commit" /\ pc'[p] = "done" /\ TwoLegs(p)]_vars

RECURSIVE TotalBalance(_, _)
TotalBalance(accs, numbers) ==
    IF numbers = {} THEN 0
    ELSE LET a == CHOOSE x \in numbers : TRUE
         IN accs[a].balance + TotalBalance(accs, numbers \ {a})

RECURSIVE TotalOpening(_)
TotalOpening(numbers) ==
    IF numbers = {} THEN 0
    ELSE LET a == CHOOSE x \in numbers : TRUE
         IN opening[a] + TotalOpening(numbers \ {a})

\* C28 as claimed: after any sequence of transfer, place_hold and release_hold
\* calls, with any arguments, the balances of all accounts add up to what the
\* accounts were opened with.
C28_MoneyConserved ==
    TotalBalance(accounts, DOMAIN accounts) = TotalOpening(DOMAIN opening)

\* C29 as claimed: whenever no call is under way, also after a process has
\* stopped between the two writes of place_hold or release_hold, every hold whose
\* amount is off an account's available_balance has a hold record that is not
\* released, which release_hold can release, and the amount of every hold
\* record marked released is back on available_balance.
C29_HoldsSurviveStop ==
    Quiescent =>
       /\ \A a \in DOMAIN accounts :
             \A h \in accounts[a].holds :
                \E r \in holds : r.hold_id = h.hold_id /\ ~r.released
       /\ \A r \in holds :
             r.released =>
                \A h \in accounts[r.account_number].holds : h.hold_id # r.hold_id

\* The account a hold call of process p writes.
HoldAccount(p) ==
    IF pc[p] = "hold_update" THEN call[p].account_number ELSE call[p].hold.account_number

\* C30 as claimed: for every amount, zero and negative ones too, the account
\* write of place_hold never increases available_balance and the account write
\* of release_hold never decreases it, and so available_balance never exceeds
\* balance.
C30_DirectionOfHoldEffects ==
    /\ [][\A p \in Procs :
            /\ (pc[p] = "hold_update" /\ pc'[p] = "hold_insert") =>
                  accounts'[HoldAccount(p)].available_balance <= accounts[HoldAccount(p)].available_balance
            /\ (pc[p] = "release_account" /\ pc'[p] = "done") =>
                  accounts'[HoldAccount(p)].available_balance >= accounts[HoldAccount(p)].available_balance]_vars
    /\ [](\A a \in DOMAIN accounts : accounts[a].available_balance <= accounts[a].balance)

====
